---- MODULE Spec2Model ----
(***************************************************************************)
(* A model of the go-flow step execution engine (src/main.go): RunFlow,    *)
(* executeStep and the four protocol executors, with the variable store    *)
(* threaded through the steps of one flow run.                             *)
(*                                                                         *)
(* Go strings are TLA+ strings, Go maps are functions whose DOMAIN is the  *)
(* set of keys present, a Go error is a non-empty string tag and the nil   *)
(* error is the empty string.  Library calls whose outcome the program     *)
(* does not control (the HTTP round trip, the database, the RPC peer, the  *)
(* sleeping timer, signals) are choices made by the environment.           *)
(***************************************************************************)
EXTENDS Integers, Sequences, FiniteSets, TLC

\* ---------------------------------------------------------------- bounds
MaxSteps == 2          \* longest flow explored
MaxInterrupts == 1     \* interrupt signals delivered during one run
MaxExpect == 2         \* largest expect_affected_rows a step declares
MaxDocs == 2           \* most documents a document-store operation reports
MaxInt == 2            \* randomInt is called with arguments in -MaxInt..MaxInt

\* ------------------------------------------------------------ Go basics
NoErr == ""

EmptyMap == [k \in {} |-> ""]

\* m[k] of a Go map[string]string: the zero value for an absent key
Lookup(m, k) == IF k \in DOMAIN m THEN m[k] ELSE ""

\* m[k] = v
Put(m, k, v) == [x \in DOMAIN m \cup {k} |-> IF x = k THEN v ELSE m[x]]

\* maps.Copy(dst, src): every key of src is written into dst
MapsCopy(dst, src) ==
    [x \in DOMAIN dst \cup DOMAIN src |-> IF x \in DOMAIN src THEN src[x] ELSE dst[x]]

IsSpace(c) == c \in {" ", "\t", "\n", "\r"}

RECURSIVE TrimLeft(_)
TrimLeft(s) ==
    IF Len(s) > 0 /\ IsSpace(SubSeq(s, 1, 1)) THEN TrimLeft(SubSeq(s, 2, Len(s))) ELSE s

RECURSIVE TrimRight(_)
TrimRight(s) ==
    IF Len(s) > 0 /\ IsSpace(SubSeq(s, Len(s), Len(s)))
    THEN TrimRight(SubSeq(s, 1, Len(s) - 1)) ELSE s

\* strings.TrimSpace
TrimSpace(s) == TrimRight(TrimLeft(s))

\* strings.Index starting the search at position i (1-based); 0 when absent
RECURSIVE IndexFrom(_, _, _)
IndexFrom(s, pat, i) ==
    IF i + Len(pat) - 1 > Len(s) THEN 0
    ELSE IF SubSeq(s, i, i + Len(pat) - 1) = pat THEN i
    ELSE IndexFrom(s, pat, i + 1)

\* strings.Split(s, sep) for a one-character separator
RECURSIVE Split(_, _)
Split(s, sep) ==
    LET i == IndexFrom(s, sep, 1) IN
    IF i = 0 THEN <<s>>
    ELSE <<SubSeq(s, 1, i - 1)>> \o Split(SubSeq(s, i + 1, Len(s)), sep)

IsDigit(c) == c \in {"0", "1", "2", "3", "4", "5", "6", "7", "8", "9"}

DigitVal(c) ==
    CASE c = "0" -> 0 [] c = "1" -> 1 [] c = "2" -> 2 [] c = "3" -> 3 [] c = "4" -> 4
      [] c = "5" -> 5 [] c = "6" -> 6 [] c = "7" -> 7 [] c = "8" -> 8 [] OTHER -> 9

\* length of the longest prefix of s made of decimal digits
RECURSIVE DigitPrefix(_)
DigitPrefix(s) ==
    IF Len(s) > 0 /\ IsDigit(SubSeq(s, 1, 1)) THEN 1 + DigitPrefix(SubSeq(s, 2, Len(s))) ELSE 0

RECURSIVE Atoi(_)
Atoi(s) ==
    IF Len(s) = 0 THEN 0
    ELSE 10 * Atoi(SubSeq(s, 1, Len(s) - 1)) + DigitVal(SubSeq(s, Len(s), Len(s)))

\* time.ParseDuration for the durations a flow writes: "0", or an unsigned
\* integer followed by one unit.  The value is kept in whole seconds
\* (sub-second units round down), which is what the wait loop's one-second
\* ticker counts against.
ParseDuration(s) ==
    LET n == DigitPrefix(s)
        unit == SubSeq(s, n + 1, Len(s))
        num == Atoi(SubSeq(s, 1, n))
    IN  IF s = "0" THEN [ok |-> TRUE, secs |-> 0]
        ELSE IF n = 0 THEN [ok |-> FALSE, secs |-> 0]
        ELSE IF unit = "s" THEN [ok |-> TRUE, secs |-> num]
        ELSE IF unit = "m" THEN [ok |-> TRUE, secs |-> 60 * num]
        ELSE IF unit = "h" THEN [ok |-> TRUE, secs |-> 3600 * num]
        ELSE IF unit \in {"ms", "us", "ns"} THEN [ok |-> TRUE, secs |-> 0]
        ELSE [ok |-> FALSE, secs |-> 0]

\* strconv.Atoi: an optional sign followed by decimal digits
strconvAtoi(v) ==
    LET signed == Len(v) > 0 /\ SubSeq(v, 1, 1) \in {"+", "-"}
        digits == IF signed THEN SubSeq(v, 2, Len(v)) ELSE v
    IN  IF digits = "" \/ DigitPrefix(digits) # Len(digits) THEN [ok |-> FALSE, num |-> 0]
        ELSE [ok |-> TRUE,
              num |-> IF signed /\ SubSeq(v, 1, 1) = "-" THEN 0 - Atoi(digits) ELSE Atoi(digits)]

\* ------------------------------------------------------------ letter case
UpperLetters == "ABCDEFGHIJKLMNOPQRSTUVWXYZ"

LowerLetters == "abcdefghijklmnopqrstuvwxyz"

MapChar(c, from, to) ==
    LET i == IndexFrom(from, c, 1) IN IF i = 0 THEN c ELSE SubSeq(to, i, i)

\* strings.ToLower
RECURSIVE ToLower(_)
ToLower(s) ==
    IF s = "" THEN ""
    ELSE MapChar(SubSeq(s, 1, 1), UpperLetters, LowerLetters) \o ToLower(SubSeq(s, 2, Len(s)))

\* strings.ToUpper
RECURSIVE ToUpper(_)
ToUpper(s) ==
    IF s = "" THEN ""
    ELSE MapChar(SubSeq(s, 1, 1), LowerLetters, UpperLetters) \o ToUpper(SubSeq(s, 2, Len(s)))

\* ------------------------------------------------------ template renderer
\* a word of an action that is one field of the data: .name
isField(w) ==
    /\ Len(w) > 1
    /\ SubSeq(w, 1, 1) = "."
    /\ IndexFrom(SubSeq(w, 2, Len(w)), ".", 1) = 0

\* the helper name applied to the value of a field (template_funcs.go 14-36)
ApplyFunc(name, value) ==
    IF name = "toUpper" THEN [ok |-> TRUE, out |-> ToUpper(value)]
    ELSE IF name = "toLower" THEN [ok |-> TRUE, out |-> ToLower(value)]
    ELSE IF name = "trimSpace" THEN [ok |-> TRUE, out |-> TrimSpace(value)]
    ELSE [ok |-> FALSE, out |-> ""]

\* the value of an action given as its words
EvalWords(words, data) ==
    IF Len(words) \notin {1, 2} \/ ~isField(words[Len(words)]) THEN [ok |-> FALSE, out |-> ""]
    ELSE IF Len(words) = 1
         THEN [ok |-> TRUE, out |-> Lookup(data, SubSeq(words[1], 2, Len(words[1])))]
    ELSE ApplyFunc(words[1], Lookup(data, SubSeq(words[2], 2, Len(words[2]))))

\* One {{ ... }} action of text/template, for the actions the flows of this
\* model write: a field reference ".name" looks the name up in the map, and
\* with missingkey=zero an absent key yields the zero string; the helpers
\* toUpper, toLower and trimSpace (template_funcs.go 15-17) are applied to a
\* field; randString with a length that is not positive returns an error
\* (template_funcs.go 48-51), which fails Execute.  A function that is not
\* defined fails Parse, a field of a string fails Execute.
EvalAction(action, data) == EvalWords(SelectSeq(Split(action, " "), LAMBDA w : w # ""), data)

\* template Parse + Execute: literal text is copied, each action is replaced
\* by its value; an unclosed action or a failing action is an error.
RECURSIVE Execute(_, _)
Execute(tmpl, data) ==
    LET open == IndexFrom(tmpl, "{{", 1) IN
    IF open = 0 THEN [ok |-> TRUE, out |-> tmpl]
    ELSE LET close == IndexFrom(tmpl, "}}", open + 2) IN
         IF close = 0 THEN [ok |-> FALSE, out |-> ""]
         ELSE LET val == EvalAction(TrimSpace(SubSeq(tmpl, open + 2, close - 1)), data)
                  rest == Execute(SubSeq(tmpl, close + 2, Len(tmpl)), data)
              IN  IF val.ok /\ rest.ok
                  THEN [ok |-> TRUE, out |-> SubSeq(tmpl, 1, open - 1) \o val.out \o rest.out]
                  ELSE [ok |-> FALSE, out |-> ""]

\* a renderer that gives up with the empty string
render_emptyOnFailure(tmpl, data) ==
    IF tmpl = "" THEN ""
    ELSE LET r == Execute(tmpl, data) IN
         IF ~r.ok THEN "" ELSE TrimSpace(r.out)

\* gofakeit.Number(min, max): the values it may return
gofakeitNumber(minValue, maxValue) == minValue..maxValue

\* a helper that draws from the reversed range when min is above max
randomInt_swaps(minValue, maxValue) ==
    IF minValue >= maxValue THEN gofakeitNumber(maxValue, minValue)
    ELSE gofakeitNumber(minValue, maxValue)

\* randomInt, template_funcs.go 66-72: the values a call may return
randomInt(minValue, maxValue) ==
    IF minValue >= maxValue THEN {minValue} ELSE gofakeitNumber(minValue, maxValue)

\* render(tmpl, vars)
render(tmpl, data) ==
    IF tmpl = "" THEN ""
    ELSE LET r == Execute(tmpl, data) IN
         IF ~r.ok THEN tmpl ELSE TrimSpace(r.out)

\* ------------------------------------------------- canonical JSON response
\* A parsed JSON value: t is its type, s its string content (for a string) or
\* its raw text (number, object), m its members (for an object).
JNull == [t |-> "null", s |-> "null", m |-> EmptyMap]
JStr(x) == [t |-> "str", s |-> x, m |-> EmptyMap]
JNum(x) == [t |-> "num", s |-> x, m |-> EmptyMap]
JObj(rawText, members) == [t |-> "obj", s |-> rawText, m |-> members]
\* an array is indexed by the decimal text of the position, as a gjson path is
JArr(rawText, elems) == [t |-> "arr", s |-> rawText, m |-> elems]

\* A payload as the executors hold it: the bytes, whether json.Valid accepts
\* them, and the document they parse to.
Payload(rawText, isValid, document) == [raw |-> rawText, valid |-> isValid, doc |-> document]

NoPayload == Payload("", FALSE, JNull)

\* gjson.GetBytes(json, path) for a dot path of object keys and array
\* positions; exists is FALSE when a key on the way is absent or the value
\* there has no members.
RECURSIVE GetKeys(_, _)
GetKeys(v, keys) ==
    IF keys = <<>> THEN [exists |-> TRUE, val |-> v]
    ELSE IF v.t \in {"obj", "arr"} /\ Head(keys) \in DOMAIN v.m
         THEN GetKeys(v.m[Head(keys)], Tail(keys))
         ELSE [exists |-> FALSE, val |-> JNull]

gjsonGet(payload, path) == GetKeys(payload.doc, Split(path, "."))

\* gjson Result.String(): a string's content, a number's or object's raw
\* text, and the empty string for null and for a value that does not exist.
gjsonString(r) ==
    IF ~r.exists \/ r.val.t = "null" THEN "" ELSE r.val.s

\* a saveValues that stores whatever the path resolves to, the empty string
\* included
saveValues_storesEmpty(respBytes, save, vars) ==
    [k \in DOMAIN vars \cup DOMAIN save |->
        IF k \in DOMAIN save THEN gjsonString(gjsonGet(respBytes, save[k])) ELSE vars[k]]

\* saveValues(respBytes, save, vars): main.go 1637-1661
saveValues(respBytes, save, vars) ==
    LET val(k) == gjsonString(gjsonGet(respBytes, save[k]))
        hit == {k \in DOMAIN save : val(k) # ""}
    IN  [k \in DOMAIN vars \cup hit |-> IF k \in hit THEN val(k) ELSE vars[k]]

\* ------------------------------------------------------------ export sink
\* varExporter.Record
Record(exporter, stepName, values) ==
    [exporter EXCEPT !.records = Append(@, [step |-> stepName, vars |-> values])]

\* the --export_file path of the run: a file in a directory of its own
ExportPath == "exports/vars.json"

\* a path that does not exist, and a file as os.Create leaves it
NoFile == [exists |-> FALSE, writes |-> 0, data |-> <<>>]
NewFile == [exists |-> TRUE, writes |-> 0, data |-> <<>>]

\* no sink: the runner was not built
NoExporter == [present |-> FALSE, records |-> <<>>]

\* newVarExporter, main.go 167-177: os.Create creates or truncates the file at
\* once, and fails when the parent directory is missing
newVarExporter(path, disk) ==
    IF ~disk.dir
    THEN [err |-> "create exported vars file", exporter |-> NoExporter, disk |-> disk]
    ELSE [err |-> NoErr, exporter |-> [present |-> TRUE, records |-> <<>>],
          disk |-> [disk EXCEPT !.file = NewFile]]

\* FlowRunner.Close and varExporter.Close, main.go 155-165 and 192-212: the
\* records, an empty list included, are encoded into the open file
Close(exporter, disk) ==
    IF ~exporter.present THEN disk
    ELSE [disk EXCEPT !.file = [exists |-> TRUE, writes |-> @.writes + 1,
                                data |-> @.data \o exporter.records]]

\* FlowRunner.recordExport
recordExport(exporter, step, vars) ==
    IF ~step.Export \/ ~exporter.present THEN exporter
    ELSE Record(exporter, step.Name, [k \in DOMAIN step.Save |-> Lookup(vars, k)])

\* an affected-row check that also compares when expect_affected_rows is 0
ensureExpectedAffectedRows_comparesZero(step, affectedRows) ==
    IF affectedRows = step.ExpectAffectedRows THEN NoErr ELSE "unexpected affected rows"

\* ensureExpectedAffectedRows
ensureExpectedAffectedRows(step, affectedRows) ==
    IF step.ExpectAffectedRows = 0 \/ affectedRows = step.ExpectAffectedRows
    THEN NoErr ELSE "unexpected affected rows"

\* ------------------------------------------------------------- flow model
NoMongo ==
    [present |-> FALSE, URI |-> "", Database |-> "", Collection |-> "", Operation |-> "",
     Filter |-> "", Document |-> "", Update |-> "", Pipeline |-> "", Command |-> ""]

NoGRPC ==
    [present |-> FALSE, Target |-> "", Method |-> "", Request |-> "", Format |-> "",
     ProtoSets |-> <<>>, ProtoFiles |-> <<>>, ProtoPaths |-> <<>>, UseReflection |-> "unset",
     ExpectCode |-> ""]

\* the zero Step value
ZeroStep ==
    [Wait |-> "", Skip |-> FALSE, Export |-> FALSE, Name |-> "", Method |-> "", URL |-> "",
     Body |-> "", ExpectStatus |-> 0, TimeoutSeconds |-> 0, Save |-> EmptyMap, SQL |-> "", DatabaseURL |-> "",
     ExpectAffectedRows |-> 0, Mongo |-> NoMongo, GRPC |-> NoGRPC]

\* Step.applyDefaults
applyDefaults(step) ==
    IF step.TimeoutSeconds = 0 THEN [step EXCEPT !.TimeoutSeconds = 10] ELSE step

\* an operation sent to a backend; NoOp when none was sent
Op(k, tgt, txt, secs) == [kind |-> k, target |-> tgt, text |-> txt, timeout |-> secs]

NoOp == Op("none", "", "", 0)

\* result of one executor call: the error returned, the variable store and
\* the export sink as the call leaves them, whether the step's expectation
\* was evaluated, and the operation sent to the backend
Res(e, v, x, chk, sent) == [err |-> e, vars |-> v, exporter |-> x, checked |-> chk, op |-> sent]

\* a resolution in which a later candidate overrides an earlier one
RECURSIVE FirstNonBlank_lastWins(_)
FirstNonBlank_lastWins(candidates) ==
    IF candidates = <<>> THEN ""
    ELSE LET rest == FirstNonBlank_lastWins(Tail(candidates)) IN
         IF rest # "" THEN rest ELSE TrimSpace(Head(candidates))

\* the first candidate that is not blank after trimming, "" when all are
RECURSIVE FirstNonBlank(_)
FirstNonBlank(candidates) ==
    IF candidates = <<>> THEN ""
    ELSE IF TrimSpace(Head(candidates)) # "" THEN TrimSpace(Head(candidates))
    ELSE FirstNonBlank(Tail(candidates))

\* ---------------------------------------------------------- HTTP executor
\* http.NewRequestWithContext rejects a method that is not a token
validMethod(m) == m # "" /\ IndexFrom(m, " ", 1) = 0

\* an HTTP branch that compares the status code even when expect_status is 0
executeHTTPStep_alwaysCompares(exporter, step0, vars, env) ==
    LET url == render(step0.URL, vars)
        bodyStr == render(step0.Body, vars)
        step == applyDefaults(step0)
        req == Op("http", url, step.Method \o " " \o bodyStr, step.TimeoutSeconds)
    IN  IF ~validMethod(step.Method) THEN Res("build request", vars, exporter, FALSE, NoOp)
        ELSE IF env.kind = "senderr" THEN Res("send request", vars, exporter, FALSE, req)
        ELSE IF env.kind = "readerr" THEN Res("read response body", vars, exporter, FALSE, req)
        ELSE IF env.status # step.ExpectStatus
             THEN Res("unexpected status", vars, exporter, TRUE, req)
        ELSE LET saved == IF /\ DOMAIN step.Save # {}
                             /\ Len(env.body.raw) > 0
                             /\ env.body.valid
                          THEN saveValues(env.body, step.Save, vars)
                          ELSE vars
             IN  Res(NoErr, saved, recordExport(exporter, step, saved), TRUE, req)

\* an HTTP branch that fails a step declaring save when the body is not JSON
executeHTTPStep_strictJSON(exporter, step0, vars, env) ==
    LET url == render(step0.URL, vars)
        bodyStr == render(step0.Body, vars)
        step == applyDefaults(step0)
        req == Op("http", url, step.Method \o " " \o bodyStr, step.TimeoutSeconds)
    IN  IF ~validMethod(step.Method) THEN Res("build request", vars, exporter, FALSE, NoOp)
        ELSE IF env.kind = "senderr" THEN Res("send request", vars, exporter, FALSE, req)
        ELSE IF env.kind = "readerr" THEN Res("read response body", vars, exporter, FALSE, req)
        ELSE IF step.ExpectStatus # 0 /\ env.status # step.ExpectStatus
             THEN Res("unexpected status", vars, exporter, TRUE, req)
        ELSE IF DOMAIN step.Save # {} /\ ~env.body.valid
             THEN Res("decode response", vars, exporter, TRUE, req)
        ELSE LET saved == IF DOMAIN step.Save # {}
                          THEN saveValues(env.body, step.Save, vars)
                          ELSE vars
             IN  Res(NoErr, saved, recordExport(exporter, step, saved), TRUE, req)

\* executeStep, main.go 632-696: the HTTP branch.  env is the round trip's
\* outcome: kind "senderr" (client.Do failed), "readerr" (reading the body
\* failed) or "resp" with a status code and a body.
executeHTTPStep(exporter, step0, vars, env) ==
    LET url == render(step0.URL, vars)
        bodyStr == render(step0.Body, vars)
        step == applyDefaults(step0)
        req == Op("http", url, step.Method \o " " \o bodyStr, step.TimeoutSeconds)
    IN  IF ~validMethod(step.Method) THEN Res("build request", vars, exporter, FALSE, NoOp)
        ELSE IF env.kind = "senderr" THEN Res("send request", vars, exporter, FALSE, req)
        ELSE IF env.kind = "readerr" THEN Res("read response body", vars, exporter, FALSE, req)
        ELSE IF step.ExpectStatus # 0 /\ env.status # step.ExpectStatus
             THEN Res("unexpected status", vars, exporter, TRUE, req)
        ELSE LET saved == IF /\ DOMAIN step.Save # {}
                             /\ Len(env.body.raw) > 0
                             /\ env.body.valid
                          THEN saveValues(env.body, step.Save, vars)
                          ELSE vars
             IN  Res(NoErr, saved, recordExport(exporter, step, saved), TRUE, req)

\* ----------------------------------------------------------- SQL executor
\* a column value of a scanned row: SQL NULL, or the text anyToString gives
Cell(text) == [null |-> FALSE, s |-> text]

NullCell == [null |-> TRUE, s |-> ""]

\* a column index keyed by the column names as the driver spelled them
buildColumnIndex_caseSensitive(columns) ==
    [k \in {columns[i] : i \in 1..Len(columns)} |->
        CHOOSE i \in 1..Len(columns) :
            /\ columns[i] = k
            /\ \A j \in 1..Len(columns) : columns[j] = k => j <= i]

\* runSQLAndSave, main.go 1491-1494: lower-cased column name -> position,
\* a later column of the same folded name replacing an earlier one
buildColumnIndex(columns) ==
    [k \in {ToLower(columns[i]) : i \in 1..Len(columns)} |->
        CHOOSE i \in 1..Len(columns) :
            /\ ToLower(columns[i]) = k
            /\ \A j \in 1..Len(columns) : ToLower(columns[j]) = k => j <= i]

\* a row extraction that stores a NULL column as the empty string
RECURSIVE saveRowValues_nullAsEmpty(_, _, _, _, _)
saveRowValues_nullAsEmpty(save, vars, rowValues, columnIndex, order) ==
    IF order = <<>> THEN [err |-> NoErr, vars |-> vars]
    ELSE LET varName == Head(order)
             target == IF TrimSpace(save[varName]) = "" THEN varName
                       ELSE TrimSpace(save[varName])
         IN  IF ToLower(target) \notin DOMAIN columnIndex
             THEN [err |-> "column not found in result set", vars |-> vars]
             ELSE saveRowValues_nullAsEmpty(save,
                      Put(vars, varName, rowValues[columnIndex[ToLower(target)]].s),
                      rowValues, columnIndex, Tail(order))

\* saveRowValues, main.go 1533-1561.  order is the order in which Go's map
\* iteration visits step.Save; a missing column returns at once and keeps
\* what the entries visited before it wrote.
RECURSIVE saveRowValues(_, _, _, _, _)
saveRowValues(save, vars, rowValues, columnIndex, order) ==
    IF order = <<>> THEN [err |-> NoErr, vars |-> vars]
    ELSE LET varName == Head(order)
             target == IF TrimSpace(save[varName]) = "" THEN varName
                       ELSE TrimSpace(save[varName])
         IN  IF ToLower(target) \notin DOMAIN columnIndex
             THEN [err |-> "column not found in result set", vars |-> vars]
             ELSE LET val == rowValues[columnIndex[ToLower(target)]] IN
                  saveRowValues(save,
                                IF val.null THEN vars ELSE Put(vars, varName, val.s),
                                rowValues, columnIndex, Tail(order))

\* runSQLWithoutSave
runSQLWithoutSave(env) ==
    IF env.kind = "execerr" THEN [n |-> 0, err |-> "execute sql"]
    ELSE IF env.kind = "affectederr" THEN [n |-> 0, err |-> "get affected rows"]
    ELSE [n |-> env.affected, err |-> NoErr]

\* a query path that treats an empty result set as zero affected rows
runSQLAndSave_allowsEmpty(step, vars, env) ==
    IF env.kind = "queryerr" THEN [n |-> 0, err |-> "query sql", vars |-> vars]
    ELSE IF env.kind = "colerr" THEN [n |-> 0, err |-> "fetch columns", vars |-> vars]
    ELSE IF Len(env.rows) = 0
         THEN [n |-> 0, err |-> IF env.iterErr THEN "iterate rows" ELSE NoErr, vars |-> vars]
    ELSE LET first == saveRowValues(step.Save, vars, env.rows[1],
                                    buildColumnIndex(env.cols), env.order)
         IN  IF env.scanErrAt = 1 THEN [n |-> 0, err |-> "scan row", vars |-> vars]
             ELSE IF first.err # NoErr THEN [n |-> 0, err |-> first.err, vars |-> first.vars]
             ELSE IF env.scanErrAt > 1 THEN [n |-> 0, err |-> "scan row", vars |-> first.vars]
             ELSE IF env.iterErr THEN [n |-> 0, err |-> "iterate rows", vars |-> first.vars]
             ELSE [n |-> Len(env.rows), err |-> NoErr, vars |-> first.vars]

\* a query path that saves from every row in turn, so the last row wins
runSQLAndSave_everyRow(step, vars, env) ==
    IF env.kind = "queryerr" THEN [n |-> 0, err |-> "query sql", vars |-> vars]
    ELSE IF env.kind = "colerr" THEN [n |-> 0, err |-> "fetch columns", vars |-> vars]
    ELSE IF Len(env.rows) = 0
         THEN [n |-> 0, err |-> IF env.iterErr THEN "iterate rows"
                                ELSE "no rows returned to save", vars |-> vars]
    ELSE LET columnIndex == buildColumnIndex(env.cols)
             first == saveRowValues(step.Save, vars, env.rows[1], columnIndex, env.order)
             final == saveRowValues(step.Save, first.vars, env.rows[Len(env.rows)],
                                    columnIndex, env.order)
         IN  IF env.scanErrAt = 1 THEN [n |-> 0, err |-> "scan row", vars |-> vars]
             ELSE IF first.err # NoErr THEN [n |-> 0, err |-> first.err, vars |-> first.vars]
             ELSE IF env.scanErrAt > 1 THEN [n |-> 0, err |-> "scan row", vars |-> first.vars]
             ELSE IF env.iterErr THEN [n |-> 0, err |-> "iterate rows", vars |-> first.vars]
             ELSE [n |-> Len(env.rows), err |-> NoErr, vars |-> final.vars]

\* runSQLAndSave: env.rows is the result set, env.scanErrAt the row whose
\* Scan fails (0 for none), env.iterErr whether rows.Err() reports an error
runSQLAndSave(step, vars, env) ==
    IF env.kind = "queryerr" THEN [n |-> 0, err |-> "query sql", vars |-> vars]
    ELSE IF env.kind = "colerr" THEN [n |-> 0, err |-> "fetch columns", vars |-> vars]
    ELSE LET columnIndex == buildColumnIndex(env.cols)
             first == IF Len(env.rows) > 0 /\ env.scanErrAt # 1
                      THEN saveRowValues(step.Save, vars, env.rows[1], columnIndex, env.order)
                      ELSE [err |-> NoErr, vars |-> vars]
         IN  IF Len(env.rows) > 0 /\ env.scanErrAt = 1
             THEN [n |-> 0, err |-> "scan row", vars |-> vars]
             ELSE IF first.err # NoErr THEN [n |-> 0, err |-> first.err, vars |-> first.vars]
             ELSE IF env.scanErrAt \in 2..Len(env.rows)
                  THEN [n |-> 0, err |-> "scan row", vars |-> first.vars]
             ELSE IF env.iterErr THEN [n |-> 0, err |-> "iterate rows", vars |-> first.vars]
             ELSE IF Len(env.rows) = 0
                  THEN [n |-> 0, err |-> "no rows returned to save", vars |-> first.vars]
             ELSE [n |-> Len(env.rows), err |-> NoErr, vars |-> first.vars]

\* executeSQLAndMaybeSave
executeSQLAndMaybeSave(step, vars, env) ==
    IF DOMAIN step.Save = {}
    THEN LET r == runSQLWithoutSave(env) IN [n |-> r.n, err |-> r.err, vars |-> vars]
    ELSE runSQLAndSave(step, vars, env)

\* executeSQLStep, main.go 1588-1635
executeSQLStep(exporter, step, sqlStmt, vars, osEnv, env) ==
    LET dbURL == FirstNonBlank(<<render(step.DatabaseURL, vars),
                                 Lookup(vars, "database_url"),
                                 Lookup(osEnv, "DATABASE_URL")>>)
        stmt == Op("sql", dbURL, sqlStmt, step.TimeoutSeconds)
    IN  IF dbURL = "" THEN Res("requires database_url", vars, exporter, FALSE, NoOp)
        ELSE IF env.kind = "openerr" THEN Res("open database", vars, exporter, FALSE, NoOp)
        ELSE IF env.kind = "pingerr" THEN Res("ping database", vars, exporter, FALSE, NoOp)
        ELSE LET r == executeSQLAndMaybeSave(step, vars, env) IN
             IF r.err # NoErr THEN Res(r.err, r.vars, exporter, FALSE, stmt)
             ELSE Res(ensureExpectedAffectedRows(step, r.n), r.vars, exporter, TRUE, stmt)

\* ------------------------------------------------ document-store executor
\* normalizeMongoOperation
normalizeMongoOperation(op) ==
    LET o == ToLower(TrimSpace(op)) IN
    IF o \in {"", "findone", "find_one"} THEN "findone"
    ELSE IF o \in {"find", "findmany", "find_many"} THEN "find"
    ELSE IF o = "aggregate" THEN "aggregate"
    ELSE IF o \in {"insert", "insertone", "insert_one"} THEN "insertone"
    ELSE IF o \in {"update", "updateone", "update_one"} THEN "updateone"
    ELSE IF o \in {"delete", "deleteone", "delete_one"} THEN "deleteone"
    ELSE o

\* parseBSONDocument: a blank payload is the empty document; otherwise the
\* Extended JSON text must be an object.  empty tells len(doc) == 0.
parseBSONDocument(payload) ==
    LET t == TrimSpace(payload) IN
    IF t = "" THEN [ok |-> TRUE, empty |-> TRUE]
    ELSE IF Len(t) >= 2 /\ SubSeq(t, 1, 1) = "{" /\ SubSeq(t, Len(t), Len(t)) = "}"
         THEN [ok |-> TRUE, empty |-> TrimSpace(SubSeq(t, 2, Len(t) - 1)) = ""]
         ELSE [ok |-> FALSE, empty |-> TRUE]

\* parseBSONArray: a blank pipeline is an error; otherwise the text must be
\* an array
parseBSONArray(payload) ==
    LET t == TrimSpace(payload) IN
    /\ Len(t) >= 2
    /\ SubSeq(t, 1, 1) = "["
    /\ SubSeq(t, Len(t), Len(t)) = "]"

NullPayload == Payload("null", TRUE, JNull)

\* an operation switch in which findOne without a match is a failed call
runMongoOperation_noDocFails(cfg, op, vars, env) ==
    LET filter == parseBSONDocument(render(cfg.Filter, vars))
        fail(e) == [err |-> e, affected |-> 0, payload |-> NoPayload, sent |-> FALSE]
        call(n) ==
            IF env.kind = "operr"
            THEN [err |-> "mongo " \o op \o " failed", affected |-> 0,
                  payload |-> NoPayload, sent |-> TRUE]
            ELSE IF env.kind = "encodeerr"
            THEN [err |-> "encode mongo result", affected |-> 0,
                  payload |-> NoPayload, sent |-> TRUE]
            ELSE [err |-> NoErr, affected |-> n, payload |-> env.payload, sent |-> TRUE]
    IN  CASE op = "findone" ->
                IF ~filter.ok THEN fail("parse mongo filter")
                ELSE IF env.kind = "nodoc"
                     THEN [err |-> "mongo findone failed", affected |-> 0,
                           payload |-> NoPayload, sent |-> TRUE]
                     ELSE call(1)
          [] op = "find" ->
                IF ~filter.ok THEN fail("parse mongo filter") ELSE call(env.n)
          [] op = "aggregate" ->
                IF ~parseBSONArray(render(cfg.Pipeline, vars))
                THEN fail("parse mongo pipeline") ELSE call(env.n)
          [] op = "insertone" ->
                LET document == parseBSONDocument(render(cfg.Document, vars)) IN
                IF ~document.ok THEN fail("parse mongo document")
                ELSE IF document.empty THEN fail("mongo document is required")
                ELSE call(1)
          [] op = "updateone" ->
                LET updateDoc == parseBSONDocument(render(cfg.Update, vars)) IN
                IF ~filter.ok THEN fail("parse mongo filter")
                ELSE IF ~updateDoc.ok THEN fail("parse mongo update")
                ELSE IF updateDoc.empty THEN fail("mongo update document is required")
                ELSE call(IF env.n = 0 /\ env.upserted > 0 THEN env.upserted ELSE env.n)
          [] op = "deleteone" ->
                IF ~filter.ok THEN fail("parse mongo filter") ELSE call(env.n)
          [] op = "command" ->
                LET cmdStr == TrimSpace(render(cfg.Command, vars)) IN
                IF cmdStr = "" THEN fail("mongo command payload is required")
                ELSE IF ~parseBSONDocument(cmdStr).ok THEN fail("parse mongo command")
                ELSE call(1)
          [] OTHER -> fail("unsupported mongo operation")

\* an operation switch in which updateOne counts modified documents only
runMongoOperation_modifiedOnly(cfg, op, vars, env) ==
    LET filter == parseBSONDocument(render(cfg.Filter, vars))
        fail(e) == [err |-> e, affected |-> 0, payload |-> NoPayload, sent |-> FALSE]
        call(n) ==
            IF env.kind = "operr"
            THEN [err |-> "mongo " \o op \o " failed", affected |-> 0,
                  payload |-> NoPayload, sent |-> TRUE]
            ELSE IF env.kind = "encodeerr"
            THEN [err |-> "encode mongo result", affected |-> 0,
                  payload |-> NoPayload, sent |-> TRUE]
            ELSE [err |-> NoErr, affected |-> n, payload |-> env.payload, sent |-> TRUE]
    IN  CASE op = "findone" ->
                IF ~filter.ok THEN fail("parse mongo filter")
                ELSE IF env.kind = "nodoc"
                     THEN [err |-> NoErr, affected |-> 0, payload |-> NullPayload, sent |-> TRUE]
                     ELSE call(1)
          [] op = "find" ->
                IF ~filter.ok THEN fail("parse mongo filter") ELSE call(env.n)
          [] op = "aggregate" ->
                IF ~parseBSONArray(render(cfg.Pipeline, vars))
                THEN fail("parse mongo pipeline") ELSE call(env.n)
          [] op = "insertone" ->
                LET document == parseBSONDocument(render(cfg.Document, vars)) IN
                IF ~document.ok THEN fail("parse mongo document")
                ELSE IF document.empty THEN fail("mongo document is required")
                ELSE call(1)
          [] op = "updateone" ->
                LET updateDoc == parseBSONDocument(render(cfg.Update, vars)) IN
                IF ~filter.ok THEN fail("parse mongo filter")
                ELSE IF ~updateDoc.ok THEN fail("parse mongo update")
                ELSE IF updateDoc.empty THEN fail("mongo update document is required")
                ELSE call(env.n)
          [] op = "deleteone" ->
                IF ~filter.ok THEN fail("parse mongo filter") ELSE call(env.n)
          [] op = "command" ->
                LET cmdStr == TrimSpace(render(cfg.Command, vars)) IN
                IF cmdStr = "" THEN fail("mongo command payload is required")
                ELSE IF ~parseBSONDocument(cmdStr).ok THEN fail("parse mongo command")
                ELSE call(1)
          [] OTHER -> fail("unsupported mongo operation")

\* executeMongoStep, main.go 775-942: the operation switch.  env.kind is
\* "operr" when the driver call fails, "encodeerr" when bsonToJSON fails,
\* "nodoc" when findOne matches nothing; env.n counts the documents
\* returned, modified or deleted, env.upserted the upserted ones, and
\* env.payload is the Extended JSON encoding of the result.
runMongoOperation(cfg, op, vars, env) ==
    LET filter == parseBSONDocument(render(cfg.Filter, vars))
        fail(e) == [err |-> e, affected |-> 0, payload |-> NoPayload, sent |-> FALSE]
        call(n) ==
            IF env.kind = "operr"
            THEN [err |-> "mongo " \o op \o " failed", affected |-> 0,
                  payload |-> NoPayload, sent |-> TRUE]
            ELSE IF env.kind = "encodeerr"
            THEN [err |-> "encode mongo result", affected |-> 0,
                  payload |-> NoPayload, sent |-> TRUE]
            ELSE [err |-> NoErr, affected |-> n, payload |-> env.payload, sent |-> TRUE]
    IN  CASE op = "findone" ->
                IF ~filter.ok THEN fail("parse mongo filter")
                ELSE IF env.kind = "nodoc"
                     THEN [err |-> NoErr, affected |-> 0, payload |-> NullPayload, sent |-> TRUE]
                     ELSE call(1)
          [] op = "find" ->
                IF ~filter.ok THEN fail("parse mongo filter") ELSE call(env.n)
          [] op = "aggregate" ->
                IF ~parseBSONArray(render(cfg.Pipeline, vars))
                THEN fail("parse mongo pipeline") ELSE call(env.n)
          [] op = "insertone" ->
                LET document == parseBSONDocument(render(cfg.Document, vars)) IN
                IF ~document.ok THEN fail("parse mongo document")
                ELSE IF document.empty THEN fail("mongo document is required")
                ELSE call(1)
          [] op = "updateone" ->
                LET updateDoc == parseBSONDocument(render(cfg.Update, vars)) IN
                IF ~filter.ok THEN fail("parse mongo filter")
                ELSE IF ~updateDoc.ok THEN fail("parse mongo update")
                ELSE IF updateDoc.empty THEN fail("mongo update document is required")
                ELSE call(IF env.n = 0 /\ env.upserted > 0 THEN env.upserted ELSE env.n)
          [] op = "deleteone" ->
                IF ~filter.ok THEN fail("parse mongo filter") ELSE call(env.n)
          [] op = "command" ->
                LET cmdStr == TrimSpace(render(cfg.Command, vars)) IN
                IF cmdStr = "" THEN fail("mongo command payload is required")
                ELSE IF ~parseBSONDocument(cmdStr).ok THEN fail("parse mongo command")
                ELSE call(1)
          [] OTHER -> fail("unsupported mongo operation")

\* executeMongoStep, main.go 699-957
executeMongoStep(exporter, step, vars, osEnv, env) ==
    LET cfg == step.Mongo
        uri == FirstNonBlank(<<render(cfg.URI, vars), Lookup(vars, "mongo_uri"),
                               Lookup(osEnv, "MONGO_URI")>>)
        dbName == FirstNonBlank(<<render(cfg.Database, vars), Lookup(vars, "mongo_database")>>)
        op == normalizeMongoOperation(cfg.Operation)
        useCollection == op # "command"
        collName == IF useCollection
                    THEN FirstNonBlank(<<render(cfg.Collection, vars),
                                         Lookup(vars, "mongo_collection")>>)
                    ELSE ""
        targetLabel == IF collName # "" THEN dbName \o "." \o collName ELSE dbName
        sent(r) == IF r.sent THEN Op("mongo", uri \o "/" \o targetLabel, op, step.TimeoutSeconds)
                   ELSE NoOp
    IN  IF ~cfg.present THEN Res("missing mongo configuration", vars, exporter, FALSE, NoOp)
        ELSE IF uri = "" THEN Res("requires mongo.uri", vars, exporter, FALSE, NoOp)
        ELSE IF dbName = "" THEN Res("requires mongo.database", vars, exporter, FALSE, NoOp)
        ELSE IF useCollection /\ collName = ""
             THEN Res("requires mongo.collection", vars, exporter, FALSE, NoOp)
        ELSE IF env.kind = "connecterr" THEN Res("connect mongo", vars, exporter, FALSE, NoOp)
        ELSE IF env.kind = "pingerr" THEN Res("ping mongo", vars, exporter, FALSE, NoOp)
        ELSE LET r == runMongoOperation(cfg, op, vars, env) IN
             IF r.err # NoErr THEN Res(r.err, vars, exporter, FALSE, sent(r))
             ELSE IF ensureExpectedAffectedRows(step, r.affected) # NoErr
                  THEN Res(ensureExpectedAffectedRows(step, r.affected), vars, exporter,
                           TRUE, sent(r))
             ELSE LET saved == IF /\ DOMAIN step.Save # {}
                                  /\ Len(r.payload.raw) > 0
                                  /\ r.payload.valid
                               THEN saveValues(r.payload, step.Save, vars)
                               ELSE vars
                  IN  Res(NoErr, saved, recordExport(exporter, step, saved), TRUE, sent(r))

\* ----------------------------------------------------------- RPC executor
\* parseGRPCFormat
parseGRPCFormat(value) ==
    LET format == ToLower(TrimSpace(value)) IN
    IF format \in {"", "json"} THEN [ok |-> TRUE, format |-> "json"]
    ELSE IF format \in {"text", "proto", "protobuf"} THEN [ok |-> TRUE, format |-> "text"]
    ELSE [ok |-> FALSE, format |-> ""]

\* grpcCodeLookup, main.go 1315-1333: the name at position i has code i - 1
grpcCodeNames ==
    <<"OK", "CANCELED", "UNKNOWN", "INVALID_ARGUMENT", "DEADLINE_EXCEEDED", "NOT_FOUND",
      "ALREADY_EXISTS", "PERMISSION_DENIED", "RESOURCE_EXHAUSTED", "FAILED_PRECONDITION",
      "ABORTED", "OUT_OF_RANGE", "UNIMPLEMENTED", "INTERNAL", "UNAVAILABLE", "DATA_LOSS",
      "UNAUTHENTICATED">>

\* strconv.Itoa for a natural number
RECURSIVE Itoa(_)
Itoa(n) ==
    IF n < 10 THEN SubSeq("0123456789", n + 1, n + 1)
    ELSE Itoa(n \div 10) \o SubSeq("0123456789", (n % 10) + 1, (n % 10) + 1)

\* a codes.Code value, a uint32, held as two 16-bit halves
uint32(n) == [hi |-> (n \div 65536) % 65536, lo |-> n % 65536]

CodeOK == uint32(0)

\* codes.Code.String()
CodeString(c) ==
    IF c.hi = 0 /\ c.lo < Len(grpcCodeNames) THEN grpcCodeNames[c.lo + 1]
    ELSE "Code(" \o Itoa(c.hi) \o "*65536+" \o Itoa(c.lo) \o ")"

\* parseGRPCCode; codes.Code(num) converts to uint32 and so wraps
parseGRPCCode(value) ==
    LET v == TrimSpace(value)
        named == {i \in 1..Len(grpcCodeNames) : grpcCodeNames[i] = ToUpper(v)}
        num == strconvAtoi(v)
    IN  IF v = "" THEN [ok |-> TRUE, code |-> CodeOK]
        ELSE IF named # {} THEN [ok |-> TRUE, code |-> uint32((CHOOSE i \in named : TRUE) - 1)]
        ELSE IF num.ok THEN [ok |-> TRUE, code |-> uint32(num.num)]
        ELSE [ok |-> FALSE, code |-> CodeOK]

\* the comma-separated raw texts of responses[i..]
RECURSIVE joinRaw(_, _)
joinRaw(responses, i) ==
    IF i > Len(responses) THEN ""
    ELSE (IF i > 1 THEN "," ELSE "") \o TrimSpace(responses[i].raw) \o joinRaw(responses, i + 1)

\* joinResponses: '[' r1 ',' r2 ... ']'; the result is valid JSON exactly
\* when every element is
joinResponses(responses) ==
    LET rawText == "[" \o joinRaw(responses, 1) \o "]" IN
    Payload(rawText,
            \A i \in 1..Len(responses) : responses[i].valid,
            JArr(rawText, [k \in {Itoa(i - 1) : i \in 1..Len(responses)} |->
                              responses[(CHOOSE i \in 1..Len(responses) : Itoa(i - 1) = k)].doc]))

\* --------------------------------------------------- descriptor sources
\* A grpcurl.DescriptorSource as its answers: the symbols it can resolve,
\* the extensions it lists for the message type, and whether its queries
\* fail (a server without reflection, an unreadable schema).  Descriptors
\* and extension entries carry the source they came from.
Source(origin, symbolNames, extNumbers, isDown) ==
    [origin |-> origin, symbols |-> symbolNames,
     exts |-> [i \in 1..Len(extNumbers) |-> [number |-> extNumbers[i], from |-> origin]],
     down |-> isDown]

NoDescriptor == [name |-> "", from |-> ""]

\* DescriptorSource.FindSymbol of a plain source
sourceFindSymbol(src, name) ==
    IF src.down THEN [d |-> NoDescriptor, err |-> src.origin \o " unavailable"]
    ELSE IF name \in src.symbols THEN [d |-> [name |-> name, from |-> src.origin], err |-> NoErr]
    ELSE [d |-> NoDescriptor, err |-> src.origin \o ": symbol not found"]

\* DescriptorSource.AllExtensionsForType of a plain source
sourceAllExtensionsForType(src, typeName) ==
    IF src.down THEN [exts |-> <<>>, err |-> src.origin \o " unavailable"]
    ELSE [exts |-> src.exts, err |-> NoErr]

\* a lookup that asks the static source first
FindSymbol_fileFirst(cs, name) ==
    LET f == sourceFindSymbol(cs.file, name)
        r == sourceFindSymbol(cs.reflection, name)
    IN  IF f.err = NoErr THEN [d |-> f.d, err |-> NoErr, queried |-> <<"file">>]
        ELSE [d |-> r.d, err |-> r.err, queried |-> <<"file", "reflection">>]

\* compositeDescriptorSource.FindSymbol, main.go 1424-1429; queried lists
\* the sources asked, in order
FindSymbol(cs, name) ==
    LET r == sourceFindSymbol(cs.reflection, name) IN
    IF r.err = NoErr THEN [d |-> r.d, err |-> NoErr, queried |-> <<"reflection">>]
    ELSE LET f == sourceFindSymbol(cs.file, name) IN
         [d |-> f.d, err |-> f.err, queried |-> <<"reflection", "file">>]

\* the entries of fileExts whose number is not among tags, in order
RECURSIVE appendUntagged(_, _, _)
appendUntagged(exts, fileExts, tags) ==
    IF fileExts = <<>> THEN exts
    ELSE appendUntagged(IF Head(fileExts).number \in tags THEN exts
                        ELSE Append(exts, Head(fileExts)),
                        Tail(fileExts), tags)

\* a listing that appends the static list without looking at the numbers
AllExtensionsForType_appendsAll(cs, typeName) ==
    LET r == sourceAllExtensionsForType(cs.reflection, typeName)
        f == sourceAllExtensionsForType(cs.file, typeName)
    IN  IF r.err # NoErr THEN f
        ELSE IF f.err # NoErr THEN [exts |-> r.exts, err |-> NoErr]
        ELSE [exts |-> r.exts \o f.exts, err |-> NoErr]

\* compositeDescriptorSource.AllExtensionsForType, main.go 1431-1455
AllExtensionsForType(cs, typeName) ==
    LET r == sourceAllExtensionsForType(cs.reflection, typeName)
        f == sourceAllExtensionsForType(cs.file, typeName)
        tags == {r.exts[i].number : i \in 1..Len(r.exts)}
    IN  IF r.err # NoErr THEN f
        ELSE IF f.err # NoErr THEN [exts |-> r.exts, err |-> NoErr]
        ELSE [exts |-> appendUntagged(r.exts, f.exts, tags), err |-> NoErr]

\* renderStringSlice: each value rendered and trimmed, blank results dropped
RECURSIVE renderStringSlice(_, _)
renderStringSlice(values, vars) ==
    IF values = <<>> THEN <<>>
    ELSE LET trimmed == TrimSpace(render(Head(values), vars)) IN
         (IF trimmed = "" THEN <<>> ELSE <<trimmed>>) \o renderStringSlice(Tail(values), vars)

\* boolValue
boolValue(value, def) == IF value = "unset" THEN def ELSE value = "true"

\* loadFileDescriptorSource, main.go 1267-1289; loadFails tells whether
\* reading the named inputs fails.  kind is "none" for the nil source.
loadFileDescriptorSource(cfg, vars, loadFails) ==
    LET protoSets == renderStringSlice(cfg.ProtoSets, vars)
        protoFiles == renderStringSlice(cfg.ProtoFiles, vars)
    IN  IF Len(protoSets) > 0 /\ Len(protoFiles) > 0
        THEN [kind |-> "none", err |-> "cannot set both proto_sets and proto_files"]
        ELSE IF Len(protoSets) > 0
             THEN IF loadFails THEN [kind |-> "none", err |-> "load proto sets"]
                  ELSE [kind |-> "protosets", err |-> NoErr]
        ELSE IF Len(protoFiles) > 0
             THEN IF loadFails THEN [kind |-> "none", err |-> "load proto files"]
                  ELSE [kind |-> "protofiles", err |-> NoErr]
        ELSE [kind |-> "none", err |-> NoErr]

\* a selection that drops reflection as soon as static inputs are given
buildDescriptorSource_staticReplaces(cfg, vars, loadFails) ==
    LET fileSource == loadFileDescriptorSource(cfg, vars, loadFails) IN
    IF fileSource.err # NoErr THEN [source |-> "none", err |-> fileSource.err]
    ELSE IF fileSource.kind # "none" THEN [source |-> "file", err |-> NoErr]
    ELSE IF boolValue(cfg.UseReflection, TRUE) THEN [source |-> "reflection", err |-> NoErr]
    ELSE [source |-> "none", err |-> "requires reflection or proto descriptors"]

\* buildDescriptorSource, main.go 1220-1265: which source the call uses
buildDescriptorSource(cfg, vars, loadFails) ==
    LET fileSource == loadFileDescriptorSource(cfg, vars, loadFails) IN
    IF fileSource.err # NoErr THEN [source |-> "none", err |-> fileSource.err]
    ELSE IF boolValue(cfg.UseReflection, TRUE)
         THEN IF fileSource.kind # "none" THEN [source |-> "composite", err |-> NoErr]
              ELSE [source |-> "reflection", err |-> NoErr]
    ELSE IF fileSource.kind # "none" THEN [source |-> "file", err |-> NoErr]
    ELSE [source |-> "none", err |-> "requires reflection or proto descriptors"]

\* a handler that keeps only the message that arrived last
ResponsePayload_lastOnly(responses) ==
    IF Len(responses) = 0 THEN NoPayload ELSE responses[Len(responses)]

\* grpcCaptureEventHandler.OnReceiveResponse: the formatted message is
\* appended with surrounding whitespace trimmed
OnReceiveResponse(responses, formatted) ==
    Append(responses, [formatted EXCEPT !.raw = TrimSpace(formatted.raw)])

\* the handler's responses after the messages of a call arrived in order
RECURSIVE Received(_)
Received(messages) ==
    IF messages = <<>> THEN <<>>
    ELSE OnReceiveResponse(Received(SubSeq(messages, 1, Len(messages) - 1)),
                           messages[Len(messages)])

\* grpcCaptureEventHandler.ResponsePayload
ResponsePayload(responses) ==
    IF Len(responses) = 0 THEN NoPayload
    ELSE IF Len(responses) = 1 THEN responses[1]
    ELSE joinResponses(responses)

\* an executor that, with no expect_code declared, accepts whatever status
\* the call returned
executeGRPCStep_unsetAcceptsAny(exporter, step, vars, env) ==
    LET cfg == step.GRPC
        target == TrimSpace(render(cfg.Target, vars))
        method == TrimSpace(render(cfg.Method, vars))
        format == parseGRPCFormat(cfg.Format)
        payload == render(cfg.Request, vars)
        call == Op("grpc", target, method \o " " \o payload, step.TimeoutSeconds)
        respCode == IF env.hasStatus THEN uint32(env.code) ELSE CodeOK
        expectedCode == TrimSpace(cfg.ExpectCode)
        code == parseGRPCCode(expectedCode)
        respBytes == ResponsePayload(Received(env.responses))
    IN  IF ~cfg.present THEN Res("missing grpc configuration", vars, exporter, FALSE, NoOp)
        ELSE IF target = "" THEN Res("requires grpc.target", vars, exporter, FALSE, NoOp)
        ELSE IF method = "" THEN Res("requires grpc.method", vars, exporter, FALSE, NoOp)
        ELSE IF ~format.ok THEN Res("unsupported grpc format", vars, exporter, FALSE, NoOp)
        ELSE IF env.kind = "dialerr" THEN Res("dial grpc", vars, exporter, FALSE, NoOp)
        ELSE IF env.kind = "descerr" \/ buildDescriptorSource(cfg, vars, FALSE).err # NoErr
             THEN Res("prepare descriptor source", vars, exporter, FALSE, NoOp)
        ELSE IF env.kind = "parsererr"
             THEN Res("build grpc request parser", vars, exporter, FALSE, NoOp)
        ELSE IF env.kind = "invokeerr" THEN Res("grpc call", vars, exporter, FALSE, call)
        ELSE IF env.kind = "handlererr"
             THEN Res("process grpc response", vars, exporter, FALSE, call)
        ELSE IF expectedCode # "" /\ ~code.ok
             THEN Res("unknown grpc expect_code", vars, exporter, FALSE, call)
        ELSE IF expectedCode # "" /\ respCode # code.code
             THEN Res("expected " \o CodeString(code.code) \o " but got " \o CodeString(respCode),
                      vars, exporter, TRUE, call)
        ELSE LET saved == IF /\ DOMAIN step.Save # {}
                             /\ Len(respBytes.raw) > 0
                             /\ respBytes.valid
                          THEN saveValues(respBytes, step.Save, vars)
                          ELSE vars
             IN  Res(NoErr, saved, recordExport(exporter, step, saved), TRUE, call)

\* executeGRPCStep, main.go 1022-1123.  env.kind is "dialerr", "descerr",
\* "parsererr", "invokeerr", "handlererr" or "ok"; with "ok" env.hasStatus
\* tells whether trailers delivered a status, env.code is its code and
\* env.responses the formatted response messages in arrival order.  "descerr"
\* is a static schema input that could not be loaded.
executeGRPCStep(exporter, step, vars, env) ==
    LET cfg == step.GRPC
        target == TrimSpace(render(cfg.Target, vars))
        method == TrimSpace(render(cfg.Method, vars))
        format == parseGRPCFormat(cfg.Format)
        payload == render(cfg.Request, vars)
        call == Op("grpc", target, method \o " " \o payload, step.TimeoutSeconds)
        respCode == IF env.hasStatus THEN uint32(env.code) ELSE CodeOK
        expectedCode == TrimSpace(cfg.ExpectCode)
        code == parseGRPCCode(expectedCode)
        respBytes == ResponsePayload(Received(env.responses))
    IN  IF ~cfg.present THEN Res("missing grpc configuration", vars, exporter, FALSE, NoOp)
        ELSE IF target = "" THEN Res("requires grpc.target", vars, exporter, FALSE, NoOp)
        ELSE IF method = "" THEN Res("requires grpc.method", vars, exporter, FALSE, NoOp)
        ELSE IF ~format.ok THEN Res("unsupported grpc format", vars, exporter, FALSE, NoOp)
        ELSE IF env.kind = "dialerr" THEN Res("dial grpc", vars, exporter, FALSE, NoOp)
        ELSE IF env.kind = "descerr" \/ buildDescriptorSource(cfg, vars, FALSE).err # NoErr
             THEN Res("prepare descriptor source", vars, exporter, FALSE, NoOp)
        ELSE IF env.kind = "parsererr"
             THEN Res("build grpc request parser", vars, exporter, FALSE, NoOp)
        ELSE IF env.kind = "invokeerr" THEN Res("grpc call", vars, exporter, FALSE, call)
        ELSE IF env.kind = "handlererr"
             THEN Res("process grpc response", vars, exporter, FALSE, call)
        ELSE IF expectedCode # "" /\ ~code.ok
             THEN Res("unknown grpc expect_code", vars, exporter, FALSE, call)
        ELSE IF expectedCode # "" /\ respCode # code.code
             THEN Res("expected " \o CodeString(code.code) \o " but got " \o CodeString(respCode),
                      vars, exporter, TRUE, call)
        ELSE IF expectedCode = "" /\ respCode # CodeOK
             THEN Res("failed: " \o CodeString(respCode), vars, exporter, TRUE, call)
        ELSE LET saved == IF /\ DOMAIN step.Save # {}
                             /\ Len(respBytes.raw) > 0
                             /\ respBytes.valid
                          THEN saveValues(respBytes, step.Save, vars)
                          ELSE vars
             IN  Res(NoErr, saved, recordExport(exporter, step, saved), TRUE, call)

\* -------------------------------------------------------- variable overrides
\* one pass of parseVarOverrides' loop that also trims the value
putPair_trimsValue(overrides, pair) ==
    LET eq == IndexFrom(pair, "=", 1) IN
    IF pair = "" THEN [err |-> NoErr, overrides |-> overrides]
    ELSE IF eq = 0 THEN [err |-> "invalid var override, expected key=value", overrides |-> EmptyMap]
    ELSE IF TrimSpace(SubSeq(pair, 1, eq - 1)) = ""
         THEN [err |-> "invalid var override, empty key", overrides |-> EmptyMap]
    ELSE [err |-> NoErr,
          overrides |-> Put(overrides, TrimSpace(SubSeq(pair, 1, eq - 1)),
                            TrimSpace(SubSeq(pair, eq + 1, Len(pair))))]

\* parseVarOverrides, main.go 539-555: one pass of the loop over the pairs.
\* strings.SplitN(pair, "=", 2) cuts at the first "="; the error returns
\* hand back a nil map.
putPair(overrides, pair) ==
    LET eq == IndexFrom(pair, "=", 1) IN
    IF pair = "" THEN [err |-> NoErr, overrides |-> overrides]
    ELSE IF eq = 0 THEN [err |-> "invalid var override, expected key=value", overrides |-> EmptyMap]
    ELSE IF TrimSpace(SubSeq(pair, 1, eq - 1)) = ""
         THEN [err |-> "invalid var override, empty key", overrides |-> EmptyMap]
    ELSE [err |-> NoErr,
          overrides |-> Put(overrides, TrimSpace(SubSeq(pair, 1, eq - 1)),
                            SubSeq(pair, eq + 1, Len(pair)))]

\* the loop's state after the pairs, given the state before the last of them
afterPair(prev, pair) == IF prev.err # NoErr THEN prev ELSE putPair(prev.overrides, pair)

\* parseVarOverrides, main.go 530-558
RECURSIVE parseVarOverrides(_)
parseVarOverrides(pairs) ==
    IF pairs = <<>> THEN [err |-> NoErr, overrides |-> EmptyMap]
    ELSE afterPair(parseVarOverrides(SubSeq(pairs, 1, Len(pairs) - 1)), pairs[Len(pairs)])

\* ------------------------------------------------------------ RPC metadata
\* the characters of the model's header keys in byte order
ByteOrder == " -0123456789:=ABCDEFGHIJKLMNOPQRSTUVWXYZ_abcdefghijklmnopqrstuvwxyz"

\* a < b for Go strings: byte-wise lexicographic order
RECURSIVE StringLess(_, _)
StringLess(a, b) ==
    IF b = "" THEN FALSE
    ELSE IF a = "" THEN TRUE
    ELSE IF SubSeq(a, 1, 1) # SubSeq(b, 1, 1)
         THEN IndexFrom(ByteOrder, SubSeq(a, 1, 1), 1) < IndexFrom(ByteOrder, SubSeq(b, 1, 1), 1)
    ELSE StringLess(SubSeq(a, 2, Len(a)), SubSeq(b, 2, Len(b)))

\* sort.Strings
RECURSIVE sortStrings(_)
sortStrings(keys) ==
    IF keys = <<>> THEN <<>>
    ELSE LET x == Head(keys)
             rest == sortStrings(Tail(keys))
         IN  SelectSeq(rest, LAMBDA y : StringLess(y, x)) \o <<x>>
             \o SelectSeq(rest, LAMBDA y : ~StringLess(y, x))

\* buildGRPCHeaders, main.go 1142-1149: the trimmed keys that are not blank,
\* one for every key of the map
RECURSIVE trimmedKeys(_)
trimmedKeys(keys) ==
    IF keys = {} THEN <<>>
    ELSE LET key == CHOOSE k \in keys : TRUE IN
         (IF TrimSpace(key) = "" THEN <<>> ELSE <<TrimSpace(key)>>)
         \o trimmedKeys(keys \ {key})

\* buildGRPCHeaders, main.go 1137-1159: the value of a header is looked up
\* under the trimmed key
buildGRPCHeaders(values, data) ==
    LET keys == sortStrings(trimmedKeys(DOMAIN values)) IN
    [i \in 1..Len(keys) |-> keys[i] \o ": " \o render(Lookup(values, keys[i]), data)]

\* ------------------------------------------------------------ connections
\* An executor as the order of its statements that matter for a connection:
\* a check that may return, an open that may fail, the defer that registers
\* the release, and the rest of the body, which may return any later error.
Stmt(kind, conn, fails) == [kind |-> kind, conn |-> conn, fails |-> fails]

\* a SQL executor that registers the release only after the ping
SQLScript_deferAfterPing ==
    << Stmt("check", "", {"requires database_url"}),
       Stmt("open", "db", {"open database"}),
       Stmt("check", "", {"ping database"}),
       Stmt("defer", "db", {}) >>

\* executeSQLStep, main.go 1598-1613: sql.Open, defer db.Close, PingContext
SQLScript ==
    << Stmt("check", "", {"requires database_url"}),
       Stmt("open", "db", {"open database"}),
       Stmt("defer", "db", {}),
       Stmt("check", "", {"ping database"}) >>

\* executeMongoStep, main.go 699-753: mongo.Connect, defer Disconnect, Ping
MongoScript ==
    << Stmt("check", "", {"missing mongo configuration", "requires mongo.uri",
                          "requires mongo.database", "requires mongo.collection"}),
       Stmt("open", "client", {"connect mongo"}),
       Stmt("defer", "client", {}),
       Stmt("check", "", {"ping mongo"}) >>

\* executeGRPCStep, main.go 1022-1071: dialGRPC, defer conn.Close, then
\* buildDescriptorSource, which creates the reflection client only on the
\* way to a source, and the defer of its cleanup when there is one
GRPCScript(usesReflection) ==
    << Stmt("check", "", {"missing grpc configuration", "requires grpc.target",
                          "requires grpc.method", "unsupported grpc format"}),
       Stmt("open", "conn", {"dial grpc"}),
       Stmt("defer", "conn", {}),
       Stmt("check", "", {"prepare descriptor source"}) >>
    \o (IF usesReflection
        THEN << Stmt("open", "reflection", {}), Stmt("defer", "reflection", {}) >>
        ELSE << >>)

\* executeStep, main.go 643-668: NewRequestWithContext, client.Do, defer
\* resp.Body.Close, ReadAll
HTTPScript ==
    << Stmt("check", "", {"build request"}),
       Stmt("open", "body", {"send request"}),
       Stmt("defer", "body", {}),
       Stmt("check", "", {"read response body"}) >>

\* the statement at which a call that returned err left the script: the one
\* that fails with err, or the end of the body for every other return
ExitAt(script, err) ==
    IF \E i \in 1..Len(script) : err \in script[i].fails
    THEN CHOOSE i \in 1..Len(script) : err \in script[i].fails
    ELSE Len(script) + 1

\* the connections a call that returned err had opened, and those its
\* deferred calls released on return
Connections(script, err) ==
    LET exit == ExitAt(script, err)
        before(kind) == {script[i].conn : i \in {j \in 1..Len(script) : j < exit /\ script[j].kind = kind}}
    IN  [opened |-> before("open"), released |-> before("defer")]

\* the script of the executor a step of the given protocol runs
ScriptOf(kind, step) ==
    IF kind = "sql" THEN SQLScript
    ELSE IF kind = "mongo" THEN MongoScript
    ELSE IF kind = "grpc" THEN GRPCScript(boolValue(step.GRPC.UseReflection, TRUE))
    ELSE IF kind = "http" THEN HTTPScript
    ELSE << >>

\* ------------------------------------------------------------ input pools
\* response bodies an HTTP or RPC peer may send
Body42 ==
    Payload("{\"data\":{\"id\":\"42\",\"k\":7}}", TRUE,
            JObj("{\"data\":{\"id\":\"42\",\"k\":7}}",
                 [k \in {"data"} |->
                    JObj("{\"id\":\"42\",\"k\":7}",
                         [j \in {"id", "k"} |-> IF j = "id" THEN JStr("42") ELSE JNum("7")])]))

BodyNull ==
    Payload("{\"data\":{\"id\":null,\"n\":\"\"}}", TRUE,
            JObj("{\"data\":{\"id\":null,\"n\":\"\"}}",
                 [k \in {"data"} |->
                    JObj("{\"id\":null,\"n\":\"\"}",
                         [j \in {"id", "n"} |-> IF j = "id" THEN JNull ELSE JStr("")])]))

BodyText == Payload("nop", FALSE, JNull)

Bodies == {Body42, BodyNull, BodyText, NoPayload}

\* the Extended JSON encoding of a found document
MongoDoc ==
    Payload("{\"_id\":{\"$oid\":\"abc\"}}", TRUE,
            JObj("{\"_id\":{\"$oid\":\"abc\"}}",
                 [k \in {"_id"} |-> JObj("{\"$oid\":\"abc\"}", [j \in {"$oid"} |-> JStr("abc")])]))

S_login ==
    [ZeroStep EXCEPT !.Name = "login", !.Method = "POST", !.URL = "{{.base}}/login",
                     !.Body = "{{.user_id}}", !.ExpectStatus = 200, !.Export = TRUE,
                     !.Save = [k \in {"user_id", "n"} |-> IF k = "user_id" THEN "data.id" ELSE "data.n"]]

S_skip ==
    [ZeroStep EXCEPT !.Name = "skipped", !.Skip = TRUE, !.Wait = "1s", !.Export = TRUE,
                     !.Save = [k \in {"user_id"} |-> "data.id"]]

S_wait ==
    [ZeroStep EXCEPT !.Name = "user", !.Wait = "{{.delay}}", !.Method = "GET",
                     !.URL = "/users/{{.user_id}}", !.TimeoutSeconds = 3,
                     !.Export = TRUE, !.Save = [k \in {"user_id"} |-> "data.id"]]

S_none == [ZeroStep EXCEPT !.Name = "none", !.Method = "GET"]

S_sql ==
    [ZeroStep EXCEPT !.Name = "query", !.SQL = " SELECT id, name FROM t WHERE id = '{{.user_id}}' ",
                     !.ExpectAffectedRows = 1, !.Export = TRUE,
                     !.Save = [k \in {"user_id", "name"} |-> IF k = "user_id" THEN " ID " ELSE ""]]

S_exec ==
    [ZeroStep EXCEPT !.Name = "exec", !.SQL = "DELETE FROM t", !.Method = "GET", !.URL = "/x",
                     !.DatabaseURL = "{{.dsn}}"]

S_mongo ==
    [ZeroStep EXCEPT !.Name = "find", !.ExpectAffectedRows = 1, !.Export = TRUE,
                     !.Save = [k \in {"user_id"} |-> "_id.$oid"],
                     !.Mongo = [NoMongo EXCEPT !.present = TRUE, !.URI = "mongodb://m",
                                               !.Database = "app", !.Collection = "users",
                                               !.Filter = "{\"u\":\"{{.user_id}}\"}"]]

S_grpc ==
    [ZeroStep EXCEPT !.Name = "rpc", !.Export = TRUE,
                     !.Save = [k \in {"user_id"} |-> "data.k"],
                     !.GRPC = [NoGRPC EXCEPT !.present = TRUE, !.Target = "{{.base}}:443",
                                             !.Method = "pkg.Svc/Get",
                                             !.Request = "{\"id\":\"{{.user_id}}\"}"]]

StepPool == {S_login, S_skip, S_wait, S_none, S_sql, S_exec, S_mongo, S_grpc}

\* flow-declared vars, caller overrides and process environment of a run
Setups ==
    { [Vars |-> [k \in {"base", "user_id"} |-> IF k = "base" THEN "http://a" ELSE "7"],
       overrides |-> [k \in {"user_id", "delay"} |-> IF k = "user_id" THEN "9" ELSE "1s"],
       osEnv |-> [k \in {"DATABASE_URL"} |-> "pg://env"]],
      [Vars |-> [k \in {"delay", "database_url"} |-> IF k = "delay" THEN "soon" ELSE "pg://var"],
       overrides |-> [k \in {"base"} |-> " b "],
       osEnv |-> EmptyMap] }

Flows == UNION {[1..n -> StepPool] : n \in 0..MaxSteps}

\* the orders in which a map with key set S can be iterated
Perms(S) == {f \in [1..Cardinality(S) -> S] : \A x \in S : \E i \in 1..Cardinality(S) : f[i] = x}

\* outcomes of an HTTP round trip
HTTPOutcomes ==
    {[kind |-> "senderr", status |-> 0, body |-> NoPayload],
     [kind |-> "readerr", status |-> 200, body |-> NoPayload]}
    \cup {[kind |-> "resp", status |-> 200, body |-> b] : b \in Bodies}
    \cup {[kind |-> "resp", status |-> 404, body |-> b] : b \in {Body42, BodyText}}

\* result sets a query may return
ResultSets ==
    { [cols |-> <<"ID", "Name">>, rows |-> <<>>],
      [cols |-> <<"ID", "Name">>, rows |-> << <<Cell("5"), NullCell>> >>],
      [cols |-> <<"id", "name">>, rows |-> << <<Cell("5"), Cell("ann")>>, <<Cell("6"), Cell("bob")>> >>],
      [cols |-> <<"id">>, rows |-> << <<Cell("5")>> >>] }

\* outcomes of a SQL step whose save has the keys saveKeys
SQLOutcomes(saveKeys) ==
    LET plain(k) == [kind |-> k, affected |-> 0, cols |-> <<>>, rows |-> <<>>, scanErrAt |-> 0,
                     iterErr |-> FALSE, order |-> <<>>]
    IN  {plain("openerr"), plain("pingerr")}
        \cup (IF saveKeys = {}
              THEN {plain("execerr"), plain("affectederr")}
                   \cup {[plain("ok") EXCEPT !.affected = n] : n \in 0..2}
              ELSE {plain("queryerr"), plain("colerr")}
                   \cup UNION {{[plain("ok") EXCEPT !.cols = rs.cols, !.rows = rs.rows,
                                                     !.scanErrAt = f[1], !.iterErr = f[2],
                                                     !.order = o] :
                                    o \in Perms(saveKeys),
                                    f \in {<<e, FALSE>> : e \in 0..Len(rs.rows)}
                                          \cup {<<0, TRUE>>}} :
                               rs \in ResultSets})

\* outcomes of a document-store step
MongoOutcomes ==
    {[kind |-> k, n |-> 0, upserted |-> 0, payload |-> NoPayload] :
        k \in {"connecterr", "pingerr", "operr", "encodeerr", "nodoc"}}
    \cup {[kind |-> "ok", n |-> 1, upserted |-> 0, payload |-> MongoDoc]}

\* outcomes of an RPC step
GRPCOutcomes ==
    {[kind |-> k, hasStatus |-> FALSE, code |-> 0, responses |-> <<>>] :
        k \in {"dialerr", "descerr", "parsererr", "invokeerr", "handlererr"}}
    \cup {[kind |-> "ok", hasStatus |-> st[1], code |-> st[2], responses |-> r] :
            st \in {<<FALSE, 0>>, <<TRUE, 0>>, <<TRUE, 5>>},
            r \in {<<>>, <<Body42>>, <<Body42, BodyNull>>}}

\* the outcomes left to an executor whose context is already cancelled: the
\* first call bound to the context fails
CancelledKinds == {"senderr", "pingerr", "connecterr", "dialerr"}

\* ------------------------------------------------------------------ state
VARIABLES
    targets,       \* the flow files runFlowsAction has still to run, in order
    disk,          \* the file system: the export file and its parent directory
    flow,          \* the parsed Flow: Vars and Steps (read-only during the run)
    overrides,     \* the caller's override variables
    osEnv,         \* the process environment
    vars,          \* the variable store of the run
    exporter,      \* the export sink: present, and its records
    pc,            \* RunFlow's position: "loop", "wait", "dispatch", "returned",
                   \* or "panic" / "killed" when the process died; around it
                   \* runFlowsAction's: "new", "exited", "closed"
    cur,           \* index of the step the for loop is at
    result,        \* the error RunFlow returned
    status,        \* per step: "pending", "running", "ok", "failed"
    ctxCancelled,  \* the run-scoped context has been cancelled
    interrupts,    \* interrupt signals delivered so far
    timer,         \* per step: the sleeping goroutine, "none", "sleeping", "fired"
    done,          \* per step: the wait's done channel is closed
    signalChan,    \* per step: "none" (not registered), "empty", "full"
    remaining,     \* seconds the wait loop still reports
    lastSeen,      \* history: the step whose wait was rendered last, and the context
    last,          \* history: the latest executeStep call that got past skip
    saved,         \* history: every write to the store so far, later over earlier
    completed,     \* history: the steps whose executeStep call returned, in order
    issued,        \* history: steps that sent an operation to a backend
    checked,       \* history: steps whose expectation was evaluated
    exportedBy     \* history: steps that recorded an export

vars_ == <<targets, disk, flow, overrides, osEnv, vars, exporter, pc, cur, result, status, ctxCancelled,
           interrupts, timer, done, signalChan, remaining, lastSeen, last, saved, completed,
           issued, checked, exportedBy>>

hist == <<lastSeen, last, saved, completed, issued, checked, exportedBy>>

NSteps == Len(flow.Steps)

Step == flow.Steps[cur]

\* a merge in which the flow's declaration wins over the caller's override
mergeVars_flowWins(flowVars, over) == MapsCopy(MapsCopy(EmptyMap, over), flowVars)

\* RunFlow, main.go 514-519: the store starts as the flow's vars overlaid by
\* the overrides
mergeVars(flowVars, over) == MapsCopy(MapsCopy(EmptyMap, flowVars), over)

\* what the backend answered, as the run's history keeps it
Got(k, code, payload) == [kind |-> k, status |-> code, body |-> payload]

\* the writes that turn the store before into the store after
Delta(before, after) ==
    [k \in {x \in DOMAIN after : x \notin DOMAIN before \/ before[x] # after[x]} |-> after[k]]

\* the history record of one executeStep call
Call(i, before, res, got, savedBefore) ==
    [step |-> i, before |-> before, after |-> res.vars, err |-> res.err, got |-> got,
     exported |-> Len(res.exporter.records) - Len(exporter.records), op |-> res.op,
     checked |-> res.checked, savedBefore |-> savedBefore]

NoLast ==
    [step |-> 0, before |-> EmptyMap, after |-> EmptyMap, err |-> NoErr,
     got |-> Got("none", 0, NoPayload), exported |-> 0, op |-> NoOp, checked |-> FALSE,
     savedBefore |-> EmptyMap]

\* the history after an executeStep call returned res
record(res, got) ==
    /\ last' = Call(cur, vars, res, got, saved)
    /\ saved' = MapsCopy(saved, Delta(vars, res.vars))
    /\ completed' = Append(completed, cur)
    /\ issued' = IF res.op = NoOp THEN issued ELSE issued \cup {cur}
    /\ checked' = IF res.checked THEN checked \cup {cur} ELSE checked
    /\ exportedBy' = IF Len(res.exporter.records) > Len(exporter.records)
                     THEN exportedBy \cup {cur} ELSE exportedBy

\* the state RunFlow starts its loop in, for a run drawn from the given
\* setups and flows
InitFrom(setups, flows) ==
    /\ \E su \in setups, st \in flows :
          /\ flow = [Vars |-> su.Vars, Steps |-> st]
          /\ overrides = su.overrides
          /\ osEnv = su.osEnv
          /\ vars = mergeVars(su.Vars, su.overrides)
          /\ status = [i \in 1..Len(st) |-> "pending"]
          /\ timer = [i \in 1..Len(st) |-> "none"]
          /\ done = [i \in 1..Len(st) |-> FALSE]
          /\ signalChan = [i \in 1..Len(st) |-> "none"]
    /\ targets = <<>>
    /\ disk = newVarExporter(ExportPath, [dir |-> TRUE, file |-> NoFile]).disk
    /\ exporter = newVarExporter(ExportPath, [dir |-> TRUE, file |-> NoFile]).exporter
    /\ pc = "loop"
    /\ cur = 1
    /\ result = NoErr
    /\ ctxCancelled = FALSE
    /\ interrupts = 0
    /\ remaining = 0
    /\ lastSeen = [step |-> 0, ctx |-> EmptyMap]
    /\ last = NoLast
    /\ saved = EmptyMap
    /\ completed = <<>>
    /\ issued = {}
    /\ checked = {}
    /\ exportedBy = {}

Init == InitFrom(Setups, Flows)

\* a loop that notes the failure and goes on with the next step
stepReturns_keepsGoing(err) ==
    /\ status' = [status EXCEPT ![cur] = IF err = NoErr THEN "ok" ELSE "failed"]
    /\ cur' = cur + 1
    /\ pc' = IF cur = NSteps THEN "returned" ELSE "loop"
    /\ result' = IF err = NoErr THEN result ELSE err

\* executeStep returned err for the current step: on nil RunFlow's loop goes
\* on to the next step, or returns nil after the last one; otherwise it
\* returns the error (main.go 521-527)
stepReturns(err) ==
    IF err = NoErr
    THEN /\ status' = [status EXCEPT ![cur] = "ok"]
         /\ cur' = cur + 1
         /\ pc' = IF cur = NSteps THEN "returned" ELSE "loop"
         /\ result' = NoErr
    ELSE /\ status' = [status EXCEPT ![cur] = "failed"]
         /\ cur' = cur
         /\ pc' = "returned"
         /\ result' = err

\* a skip check that comes after classification: the skipped step without
\* protocol fields is reported as a configuration error
StepSkip_classifiesFirst ==
    /\ pc = "loop" /\ cur <= NSteps
    /\ Step.Skip
    /\ IF Step.Method = "" \/ Step.URL = ""
       THEN stepReturns("requires sql, grpc, or method/url fields")
       ELSE stepReturns(NoErr)
    /\ UNCHANGED <<targets, disk, flow, overrides, osEnv, vars, exporter, ctxCancelled, interrupts, timer,
                   done, signalChan, remaining, hist>>

\* executeStep, main.go 565-568: a skipped step returns nil at once
StepSkip ==
    /\ pc = "loop" /\ cur <= NSteps
    /\ Step.Skip
    /\ stepReturns(NoErr)
    /\ UNCHANGED <<targets, disk, flow, overrides, osEnv, vars, exporter, ctxCancelled, interrupts, timer,
                   done, signalChan, remaining, hist>>

\* a wait that is not a duration is taken as no wait: the step goes on to
\* classification
StepWaitInvalid_dispatches ==
    /\ pc = "loop" /\ cur <= NSteps
    /\ ~Step.Skip /\ Step.Wait # ""
    /\ ~ParseDuration(render(Step.Wait, vars)).ok
    /\ pc' = "dispatch"
    /\ lastSeen' = [step |-> cur, ctx |-> vars]
    /\ UNCHANGED <<targets, disk, flow, overrides, osEnv, vars, exporter, cur, result, status,
                   ctxCancelled, interrupts, timer, done, signalChan, remaining, last, saved,
                   completed, issued, checked, exportedBy>>

\* executeStep, main.go 570-574: the rendered wait is not a duration
StepWaitInvalid ==
    /\ pc = "loop" /\ cur <= NSteps
    /\ ~Step.Skip /\ Step.Wait # ""
    /\ ~ParseDuration(render(Step.Wait, vars)).ok
    /\ stepReturns("parse wait duration")
    /\ lastSeen' = [step |-> cur, ctx |-> vars]
    /\ record(Res("parse wait duration", vars, exporter, FALSE, NoOp), Got("none", 0, NoPayload))
    /\ UNCHANGED <<targets, disk, flow, overrides, osEnv, vars, exporter, ctxCancelled, interrupts, timer,
                   done, signalChan, remaining>>

\* a wait that is left to run in the background while the loop goes on to
\* the next step
StepWaitStart_background ==
    /\ pc = "loop" /\ cur <= NSteps
    /\ ~Step.Skip /\ Step.Wait # ""
    /\ ParseDuration(render(Step.Wait, vars)).ok
    /\ status' = [status EXCEPT ![cur] = "running"]
    /\ lastSeen' = [step |-> cur, ctx |-> vars]
    /\ signalChan' = [signalChan EXCEPT ![cur] = "empty"]
    /\ timer' = [timer EXCEPT ![cur] = "sleeping"]
    /\ remaining' = ParseDuration(render(Step.Wait, vars)).secs
    /\ cur' = cur + 1
    /\ pc' = IF cur = NSteps THEN "returned" ELSE "loop"
    /\ UNCHANGED <<targets, disk, flow, overrides, osEnv, vars, exporter, result, ctxCancelled,
                   interrupts, done, last, saved, completed, issued, checked, exportedBy>>

\* executeStep, main.go 570-593: the wait starts: the signal channel is
\* registered, the done channel made and the sleeping goroutine started
StepWaitStart ==
    /\ pc = "loop" /\ cur <= NSteps
    /\ ~Step.Skip /\ Step.Wait # ""
    /\ ParseDuration(render(Step.Wait, vars)).ok
    /\ status' = [status EXCEPT ![cur] = "running"]
    /\ lastSeen' = [step |-> cur, ctx |-> vars]
    /\ signalChan' = [signalChan EXCEPT ![cur] = "empty"]
    /\ timer' = [timer EXCEPT ![cur] = "sleeping"]
    /\ remaining' = ParseDuration(render(Step.Wait, vars)).secs
    /\ pc' = "wait"
    /\ UNCHANGED <<targets, disk, flow, overrides, osEnv, vars, exporter, cur, result, ctxCancelled,
                   interrupts, done, last, saved, completed, issued, checked, exportedBy>>

\* executeStep is past skip and wait and about to classify the step: it
\* left the wait loop, or the step declares no wait
ready ==
    \/ pc = "dispatch"
    \/ pc = "loop" /\ cur <= NSteps /\ ~Step.Skip /\ Step.Wait = ""

\* the wait loop's select, case <-done (main.go 596-598)
WaitDone ==
    /\ pc = "wait"
    /\ done[cur]
    /\ pc' = "dispatch"
    /\ UNCHANGED <<targets, disk, flow, overrides, osEnv, vars, exporter, cur, result, status, ctxCancelled,
                   interrupts, timer, done, signalChan, remaining, hist>>

\* the wait loop's select, case <-ticker.C (main.go 599-604)
WaitTick ==
    /\ pc = "wait"
    /\ remaining > 0
    /\ remaining' = remaining - 1
    /\ UNCHANGED <<targets, disk, flow, overrides, osEnv, vars, exporter, pc, cur, result, status,
                   ctxCancelled, interrupts, timer, done, signalChan, hist>>

\* the wait loop's select, case <-signalChan (main.go 605-607): close(done),
\* which panics when the sleeping goroutine has closed it already
WaitSignal ==
    /\ pc = "wait"
    /\ signalChan[cur] = "full"
    /\ signalChan' = [signalChan EXCEPT ![cur] = "empty"]
    /\ IF done[cur] THEN pc' = "panic" /\ done' = done
                    ELSE pc' = pc /\ done' = [done EXCEPT ![cur] = TRUE]
    /\ UNCHANGED <<targets, disk, flow, overrides, osEnv, vars, exporter, cur, result, status, ctxCancelled,
                   interrupts, timer, remaining, hist>>

\* the goroutine of main.go 587-590: the sleep is over and it closes done,
\* which panics when the interrupt case has closed it already
TimerFire ==
    /\ pc \in {"loop", "wait", "dispatch"}
    /\ \E i \in 1..NSteps :
          /\ timer[i] = "sleeping"
          /\ timer' = [timer EXCEPT ![i] = "fired"]
          /\ IF done[i] THEN pc' = "panic" /\ done' = done
                        ELSE pc' = pc /\ done' = [done EXCEPT ![i] = TRUE]
    /\ UNCHANGED <<targets, disk, flow, overrides, osEnv, vars, exporter, cur, result, status, ctxCancelled,
                   interrupts, signalChan, remaining, hist>>

\* an interrupt signal: signal.Notify (main.go 583-584) delivers it to every
\* registered channel that has room; with no channel registered the Go
\* runtime's default handling ends the process
Interrupt ==
    /\ pc \in {"loop", "wait", "dispatch"}
    /\ interrupts < MaxInterrupts
    /\ interrupts' = interrupts + 1
    /\ IF \A i \in 1..NSteps : signalChan[i] = "none"
       THEN pc' = "killed" /\ signalChan' = signalChan
       ELSE /\ pc' = pc
            /\ signalChan' = [i \in 1..NSteps |->
                                IF signalChan[i] = "none" THEN "none" ELSE "full"]
    /\ UNCHANGED <<targets, disk, flow, overrides, osEnv, vars, exporter, cur, result, status, ctxCancelled,
                   timer, done, remaining, hist>>

\* the caller cancels the context it passed to RunFlow
CancelCtx ==
    /\ pc \in {"loop", "wait", "dispatch"}
    /\ ~ctxCancelled
    /\ ctxCancelled' = TRUE
    /\ UNCHANGED <<targets, disk, flow, overrides, osEnv, vars, exporter, pc, cur, result, status,
                   interrupts, timer, done, signalChan, remaining, hist>>

\* classifyStep, unnamed/part_001 148-161: the protocol label of a step, from
\* the step as written
classifyStep(step) ==
    IF TrimSpace(step.SQL) # "" THEN "sql"
    ELSE IF step.Mongo.present THEN "mongo"
    ELSE IF step.GRPC.present THEN "grpc"
    ELSE IF step.Method # "" /\ step.URL # "" THEN "http"
    ELSE "step"

\* a classification that looks at the document block before the SQL text
dispatchKind_mongoFirst(step, data) ==
    IF step.Mongo.present THEN "mongo"
    ELSE IF TrimSpace(render(step.SQL, data)) # "" THEN "sql"
    ELSE IF step.GRPC.present THEN "grpc"
    ELSE IF step.Method = "" \/ step.URL = "" THEN "none"
    ELSE "http"

\* executeStep, main.go 612-630: which executor a step that got past skip and
\* wait is handed to; "none" is the configuration error
dispatchKind(step, data) ==
    IF TrimSpace(render(step.SQL, data)) # "" THEN "sql"
    ELSE IF step.Mongo.present THEN "mongo"
    ELSE IF step.GRPC.present THEN "grpc"
    ELSE IF step.Method = "" \/ step.URL = "" THEN "none"
    ELSE "http"

\* an executor that works on a copy of the store: what it saved is lost
\* when it returns
finish_onCopy(res, got) ==
    /\ vars' = vars
    /\ exporter' = res.exporter
    /\ record(res, got)
    /\ stepReturns(res.err)
    /\ UNCHANGED <<targets, disk, flow, overrides, osEnv, ctxCancelled, interrupts, timer, done, signalChan,
                   remaining, lastSeen>>

\* the executor returned res after the backend answered got: its effects on
\* the store and the sink, and RunFlow's reaction to the error
finish(res, got) ==
    /\ vars' = res.vars
    /\ exporter' = res.exporter
    /\ record(res, got)
    /\ stepReturns(res.err)
    /\ UNCHANGED <<targets, disk, flow, overrides, osEnv, ctxCancelled, interrupts, timer, done, signalChan,
                   remaining, lastSeen>>

\* executeStep, main.go 612-616
ExecSQL ==
    /\ ready
    /\ dispatchKind(Step, vars) = "sql"
    /\ \E env \in SQLOutcomes(DOMAIN Step.Save) :
          /\ ctxCancelled => env.kind \in CancelledKinds
          /\ finish(executeSQLStep(exporter, applyDefaults(Step),
                                   TrimSpace(render(Step.SQL, vars)), vars, osEnv, env),
                    Got(env.kind, Len(env.rows), NoPayload))

\* executeStep, main.go 618-621
ExecMongo ==
    /\ ready
    /\ dispatchKind(Step, vars) = "mongo"
    /\ \E env \in MongoOutcomes :
          /\ ctxCancelled => env.kind \in CancelledKinds
          /\ finish(executeMongoStep(exporter, applyDefaults(Step), vars, osEnv, env),
                    Got(env.kind, env.n, env.payload))

\* executeStep, main.go 623-626
ExecGRPC ==
    /\ ready
    /\ dispatchKind(Step, vars) = "grpc"
    /\ \E env \in GRPCOutcomes :
          /\ ctxCancelled => env.kind \in CancelledKinds
          /\ finish(executeGRPCStep(exporter, applyDefaults(Step), vars, env),
                    Got(env.kind, env.code, ResponsePayload(env.responses)))

\* executeStep, main.go 628-630
ExecNone ==
    /\ ready
    /\ dispatchKind(Step, vars) = "none"
    /\ finish(Res("requires sql, grpc, or method/url fields", vars, exporter, FALSE, NoOp),
              Got("none", 0, NoPayload))

\* executeStep, main.go 632-696
ExecHTTP ==
    /\ ready
    /\ dispatchKind(Step, vars) = "http"
    /\ \E env \in HTTPOutcomes :
          /\ ctxCancelled => env.kind \in CancelledKinds
          /\ finish(executeHTTPStep(exporter, Step, vars, env),
                    Got(env.kind, env.status, env.body))

\* RunFlow, main.go 521-527, for a flow without steps: return nil
RunFlowReturn ==
    /\ pc = "loop" /\ NSteps = 0
    /\ pc' = "returned"
    /\ result' = NoErr
    /\ UNCHANGED <<targets, disk, flow, overrides, osEnv, vars, exporter, cur, status, ctxCancelled,
                   interrupts, timer, done, signalChan, remaining, hist>>

Next ==
    \/ StepSkip
    \/ StepWaitInvalid
    \/ StepWaitStart
    \/ WaitDone
    \/ WaitTick
    \/ WaitSignal
    \/ TimerFire
    \/ Interrupt
    \/ CancelCtx
    \/ ExecSQL
    \/ ExecMongo
    \/ ExecGRPC
    \/ ExecNone
    \/ ExecHTTP
    \/ RunFlowReturn

Spec == Init /\ [][Next]_vars_


\* ------------------------------------------- one step against its backend
\* A second specification: flows of one step, drawn from wider pools of
\* steps, stores, environments and backend answers than Spec explores, run by
\* the same executors; the history keeps the whole backend answer.

\* save maps of the SQL steps: none, a column by another case and a column by
\* the variable's own name, a column the result sets do not have
SQLSaves ==
    { EmptyMap,
      [k \in {"user_id", "name"} |-> IF k = "user_id" THEN " ID " ELSE ""],
      [k \in {"user_id", "zip"} |-> IF k = "user_id" THEN "id" ELSE "postcode"] }

SQLSteps ==
    {[ZeroStep EXCEPT !.Name = "q", !.SQL = "SELECT * FROM t", !.Save = sv, !.Export = TRUE,
                      !.ExpectAffectedRows = e, !.DatabaseURL = d] :
        sv \in SQLSaves, e \in 0..MaxExpect, d \in {"", " {{.dsn}} ", "pg://step"}}

\* stores and environments that set, blank or omit the connection targets
TargetVars ==
    { EmptyMap,
      [k \in {"database_url", "mongo_uri", "mongo_database", "user_id"} |->
          IF k = "user_id" THEN "9" ELSE "  "],
      [k \in {"database_url", "mongo_uri", "mongo_database", "mongo_collection"} |->
          CASE k = "database_url" -> "pg://var"
            [] k = "mongo_uri" -> " mongodb://var "
            [] k = "mongo_database" -> "vdb"
            [] OTHER -> "vcoll"],
      [k \in {"dsn", "mongo_database", "mongo_collection"} |->
          CASE k = "dsn" -> "pg://dsn"
            [] k = "mongo_database" -> "vdb"
            [] OTHER -> "vcoll"] }

TargetEnvs ==
    { EmptyMap,
      [k \in {"DATABASE_URL", "MONGO_URI"} |->
          IF k = "DATABASE_URL" THEN "pg://env" ELSE "mongodb://env"] }

StepSetups ==
    {[Vars |-> v, overrides |-> EmptyMap, osEnv |-> e] : v \in TargetVars, e \in TargetEnvs}

\* how a document-store step names its target: not at all, by templated
\* fields, or by a URI and a database with a blank collection
MongoTargets ==
    { [uri |-> "", db |-> "", coll |-> ""],
      [uri |-> " mongodb://{{.user_id}} ", db |-> "app", coll |-> "users"],
      [uri |-> "mongodb://step", db |-> "app", coll |-> "  "] }

\* operation names as a flow may spell them, one of them unsupported
MongoOps == {"", "find", " Aggregate ", "insertOne", "update_one", "deleteone", "command", "drop"}

MongoSteps ==
    {[ZeroStep EXCEPT !.Name = "m", !.Export = TRUE, !.ExpectAffectedRows = e,
                      !.Save = [k \in {"user_id"} |-> "_id.$oid"],
                      !.Mongo = [NoMongo EXCEPT !.present = TRUE, !.URI = t.uri,
                                                !.Database = t.db, !.Collection = t.coll,
                                                !.Operation = o, !.Filter = "{\"u\":1}",
                                                !.Document = "{\"u\":1}",
                                                !.Update = "{\"$set\":{\"u\":2}}",
                                                !.Pipeline = "[]",
                                                !.Command = "{\"ping\":1}"]] :
        o \in MongoOps, e \in 0..MaxExpect, t \in MongoTargets}

\* outcomes of a document-store step, with the counts the driver reports
MongoOutcomesWide ==
    {[kind |-> k, n |-> 0, upserted |-> 0, payload |-> NoPayload] :
        k \in {"connecterr", "pingerr", "operr", "encodeerr", "nodoc"}}
    \cup {[kind |-> "ok", n |-> n, upserted |-> u, payload |-> MongoDoc] :
            n \in 0..MaxDocs, u \in 0..1}

\* the body of TestValidateAndSaveJSONHandlesBOM
BodyValue ==
    Payload("{\"value\":\"123\"}", TRUE,
            JObj("{\"value\":\"123\"}", [k \in {"value"} |-> JStr("123")]))

\* the three bytes EF BB BF of a UTF-8 byte-order mark
BOM == "<EF BB BF>"

\* the payload p behind a byte-order mark: as a whole it is not valid JSON
WithBOM(p) == Payload(BOM \o p.raw, FALSE, JNull)

JSONBodies == Bodies \cup {BodyValue}

JSONPayloads == JSONBodies \cup {WithBOM(b) : b \in JSONBodies}

\* what json.Valid and the parser make of the bytes rawText
Decode(rawText) ==
    IF \E b \in JSONBodies : b.raw = rawText
    THEN CHOOSE b \in JSONBodies : b.raw = rawText
    ELSE Payload(rawText, FALSE, JNull)

\* bytes.TrimPrefix(payload, byte-order mark)
TrimBOM(p) ==
    IF Len(p.raw) >= Len(BOM) /\ SubSeq(p.raw, 1, Len(BOM)) = BOM
    THEN Decode(SubSeq(p.raw, Len(BOM) + 1, Len(p.raw)))
    ELSE p

\* a validation that tests the bytes as they came, mark included
validateAndSaveJSON_keepsMark(step, payload, store) ==
    IF ~payload.valid
    THEN [err |-> "invalid JSON payload", vars |-> store]
    ELSE [err |-> NoErr, vars |-> saveValues(payload, step.Save, store)]

\* validateAndSaveJSON(step, payload, vars, label), as main_test.go 438-469
\* uses it: the mark is removed, an invalid rest is an error, a valid rest
\* is handed to saveValues
validateAndSaveJSON(step, payload, store) ==
    LET trimmed == TrimBOM(payload) IN
    IF ~trimmed.valid
    THEN [err |-> "invalid JSON payload", vars |-> store]
    ELSE [err |-> NoErr, vars |-> saveValues(trimmed, step.Save, store)]

\* steps that only declare save, as the tests of validateAndSaveJSON build
JSONSteps ==
    {[ZeroStep EXCEPT !.Name = "bom-step", !.Save = sv] :
        sv \in {[k \in {"foo"} |-> "value"],
                [k \in {"user_id", "n"} |-> IF k = "user_id" THEN "data.id" ELSE "data.n"]}}

\* expect_code as a flow may write it: absent, blank, names in several
\* spellings, integers with and without sign, and text that is neither
ExpectCodes ==
    {"", "  ", "NOT_FOUND", "not_found", " Canceled ", "5", "+5", "16", "99", "-1",
     "not-a-code", "5x"}

\* save of an RPC step: a path into one message, or paths into the
\* elements of a stream's array
GRPCSaves ==
    { [k \in {"user_id"} |-> "data.id"],
      [k \in {"user_id", "k"} |-> IF k = "user_id" THEN "0.data.id" ELSE "1.data.k"] }

GRPCSteps ==
    {[S_grpc EXCEPT !.Save = sv, !.GRPC = [S_grpc.GRPC EXCEPT !.ExpectCode = c]] :
        c \in ExpectCodes, sv \in GRPCSaves}

\* a message as the formatter returns it, with whitespace around the text
Padded(p) == [p EXCEPT !.raw = "  " \o p.raw \o "\n"]

\* the messages of a call in arrival order: none, one, or a stream
GRPCMessages ==
    { <<>>, <<Body42>>, <<Padded(Body42)>>, <<BodyText>>, <<Body42, BodyNull>>,
      <<Padded(BodyNull), Padded(Body42)>>, <<Body42, BodyNull, Body42>> }

\* outcomes of an RPC step, over the wider message pool
GRPCOutcomesWide ==
    {[kind |-> k, hasStatus |-> FALSE, code |-> 0, responses |-> <<>>] :
        k \in {"dialerr", "descerr", "parsererr", "invokeerr", "handlererr"}}
    \cup {[kind |-> "ok", hasStatus |-> st[1], code |-> st[2], responses |-> r] :
            st \in {<<FALSE, 0>>, <<TRUE, 0>>, <<TRUE, 5>>}, r \in GRPCMessages}

StepPoolWide == SQLSteps \cup MongoSteps \cup JSONSteps \cup GRPCSteps

\* executeStep, main.go 612-616, keeping the database's whole answer
SQLCall ==
    /\ ready
    /\ dispatchKind(Step, vars) = "sql"
    /\ \E env \in SQLOutcomes(DOMAIN Step.Save) :
          finish(executeSQLStep(exporter, applyDefaults(Step),
                                TrimSpace(render(Step.SQL, vars)), vars, osEnv, env), env)

\* executeStep, main.go 618-621, keeping the driver's whole answer
MongoCall ==
    /\ ready
    /\ dispatchKind(Step, vars) = "mongo"
    /\ \E env \in MongoOutcomesWide :
          finish(executeMongoStep(exporter, applyDefaults(Step), vars, osEnv, env), env)

\* a call of validateAndSaveJSON on a response payload
ValidateCall ==
    /\ ready
    /\ dispatchKind(Step, vars) = "none"
    /\ DOMAIN Step.Save # {}
    /\ \E payload \in JSONPayloads :
          LET r == validateAndSaveJSON(Step, payload, vars) IN
          finish(Res(r.err, r.vars, exporter, FALSE, NoOp), Got("payload", 0, payload))

\* executeStep, main.go 623-626, keeping the whole outcome of the call
GRPCCall ==
    /\ ready
    /\ dispatchKind(Step, vars) = "grpc"
    /\ \E env \in GRPCOutcomesWide :
          finish(executeGRPCStep(exporter, applyDefaults(Step), vars, env), env)

\* a call of parseGRPCCode on the step's expect_code
ParseCodeCall ==
    /\ ready
    /\ dispatchKind(Step, vars) = "grpc"
    /\ LET r == parseGRPCCode(Step.GRPC.ExpectCode) IN
       finish(Res(IF r.ok THEN NoErr ELSE "unknown grpc expect_code", vars, exporter,
                  FALSE, NoOp),
              [kind |-> "code", value |-> Step.GRPC.ExpectCode, ok |-> r.ok, code |-> r.code])

InitStep == InitFrom(StepSetups, {<<s>> : s \in StepPoolWide})

NextStep ==
    \/ SQLCall
    \/ MongoCall
    \/ GRPCCall
    \/ ValidateCall
    \/ ParseCodeCall

SpecStep == InitStep /\ [][NextStep]_vars_

\* ------------------------------------ an RPC step's descriptor source
\* schema inputs as a flow lists them: none, a name, a blank entry, and a
\* template that renders to nothing unless the variable is set
ProtoLists(name) == {<<>>, <<name>>, <<"  ">>, <<"{{.schema}}", " ">>}

DescSteps ==
    {[S_grpc EXCEPT !.GRPC = [S_grpc.GRPC EXCEPT !.UseReflection = u, !.ProtoSets = ps,
                                                 !.ProtoFiles = pf,
                                                 !.ProtoPaths = <<"protos">>]] :
        u \in {"unset", "true", "false"},
        ps \in ProtoLists("api.protoset"),
        pf \in ProtoLists("api.proto")}

DescSetups ==
    {[Vars |-> v, overrides |-> EmptyMap, osEnv |-> EmptyMap] :
        v \in {EmptyMap, [k \in {"schema"} |-> "svc"]}}

SymbolNames == {"pkg.Svc", "pkg.Msg", "pkg.Gone"}

\* what the server's reflection service answers
ReflectionSources ==
    { Source("reflection", {}, <<>>, TRUE),
      Source("reflection", {}, <<>>, FALSE),
      Source("reflection", {"pkg.Svc"}, <<1, 2>>, FALSE),
      Source("reflection", {"pkg.Svc", "pkg.Msg"}, <<2>>, FALSE) }

\* what the loaded schema files answer
FileSources ==
    { Source("file", {}, <<>>, TRUE),
      Source("file", {"pkg.Msg"}, <<>>, FALSE),
      Source("file", {"pkg.Svc", "pkg.Msg"}, <<3, 2>>, FALSE) }

\* the composite source buildDescriptorSource makes of the two
CompositeSources ==
    {[reflection |-> r, file |-> f] : r \in ReflectionSources, f \in FileSources}

\* buildDescriptorSource called for the step, the schema inputs loading or not
BuildSourceCall ==
    /\ ready
    /\ dispatchKind(Step, vars) = "grpc"
    /\ \E loadFails \in BOOLEAN :
          LET r == buildDescriptorSource(Step.GRPC, vars, loadFails) IN
          finish(Res(r.err, vars, exporter, FALSE, NoOp),
                 [kind |-> "source", loadFails |-> loadFails, source |-> r.source])

\* the request parser resolving a symbol through the step's composite source
FindSymbolCall ==
    /\ ready
    /\ dispatchKind(Step, vars) = "grpc"
    /\ buildDescriptorSource(Step.GRPC, vars, FALSE).source = "composite"
    /\ \E cs \in CompositeSources, name \in SymbolNames :
          LET r == FindSymbol(cs, name) IN
          finish(Res(r.err, vars, exporter, FALSE, NoOp),
                 [kind |-> "symbol", cs |-> cs, name |-> name, d |-> r.d,
                  queried |-> r.queried])

\* the request parser listing a type's extensions through the composite source
ExtensionsCall ==
    /\ ready
    /\ dispatchKind(Step, vars) = "grpc"
    /\ buildDescriptorSource(Step.GRPC, vars, FALSE).source = "composite"
    /\ \E cs \in CompositeSources :
          LET r == AllExtensionsForType(cs, "pkg.Msg") IN
          finish(Res(r.err, vars, exporter, FALSE, NoOp),
                 [kind |-> "extensions", cs |-> cs, exts |-> r.exts])

InitDesc == InitFrom(DescSetups, {<<s>> : s \in DescSteps})

NextDesc ==
    \/ BuildSourceCall
    \/ FindSymbolCall
    \/ ExtensionsCall

SpecDesc == InitDesc /\ [][NextDesc]_vars_

\* ------------------------------------------- steps with several blocks
\* steps made of every combination of a SQL text (absent, blank, a template
\* that may render to nothing, a statement), a document block, an RPC block
\* and HTTP fields (none, one of the two, both)
MixedSteps ==
    {[ZeroStep EXCEPT !.Name = "mixed", !.SQL = q, !.Method = h[1], !.URL = h[2],
                      !.Mongo = IF m THEN S_mongo.Mongo ELSE NoMongo,
                      !.GRPC = IF g THEN S_grpc.GRPC ELSE NoGRPC] :
        q \in {"", "  ", "{{.stmt}}", "SELECT 1"},
        m \in BOOLEAN, g \in BOOLEAN,
        h \in {<<"", "">>, <<"GET", "">>, <<"", "/x">>, <<"GET", "{{.base}}/x">>}}

DispatchSetups ==
    {[Vars |-> v, overrides |-> EmptyMap, osEnv |-> EmptyMap] :
        v \in {[k \in {"database_url", "base"} |->
                   IF k = "base" THEN "http://a" ELSE "pg://var"],
               [k \in {"database_url", "base", "stmt"} |->
                   CASE k = "base" -> "http://a"
                     [] k = "stmt" -> " DELETE FROM t "
                     [] OTHER -> "pg://var"]}}

InitDispatch == InitFrom(DispatchSetups, {<<s>> : s \in MixedSteps})

NextDispatch ==
    \/ ExecSQL
    \/ ExecMongo
    \/ ExecGRPC
    \/ ExecHTTP
    \/ ExecNone

SpecDispatch == InitDispatch /\ [][NextDispatch]_vars_

\* ------------------------------------------------- templates and helpers
\* request bodies as a flow may template them: plain text, references to
\* present and absent variables, helpers, and templates that fail to parse
\* (unclosed action, unknown function) or to execute (a field of a string,
\* a helper that returns an error)
Templates ==
    {"", "  plain  ", " Hello {{toUpper .name}} {{.count}} ", "{{.missing}}",
     "a{{ .missing }}b", " {{toLower .name}}-{{ trimSpace .padded }} ",
     " {{.name ", "{{nofunc .name}} ", " {{.name.first}}", " x{{randString 0}} ",
     "{{randString -1}}"}

TemplateSteps ==
    {[ZeroStep EXCEPT !.Name = "render", !.Method = "POST", !.URL = "{{.base}}/echo",
                      !.Body = t] : t \in Templates}

TemplateSetups ==
    {[Vars |-> v, overrides |-> EmptyMap, osEnv |-> EmptyMap] :
        v \in {EmptyMap,
               [k \in {"name", "count", "padded", "base"} |->
                   CASE k = "name" -> "Codex"
                     [] k = "count" -> "5"
                     [] k = "padded" -> " p "
                     [] OTHER -> "http://a"]}}

\* a template calling the helper randomInt with two integers
RandomIntCall ==
    /\ ready
    /\ dispatchKind(Step, vars) = "http"
    /\ \E minValue \in (0 - MaxInt)..MaxInt, maxValue \in (0 - MaxInt)..MaxInt :
          \E r \in randomInt(minValue, maxValue) :
             finish(Res(NoErr, vars, exporter, FALSE, NoOp),
                    [kind |-> "int", min |-> minValue, max |-> maxValue, r |-> r])

InitRender == InitFrom(TemplateSetups, {<<s>> : s \in TemplateSteps})

NextRender ==
    \/ ExecHTTP
    \/ RandomIntCall

SpecRender == InitRender /\ [][NextRender]_vars_

\* ---------------------------------------------------- the run of flow files
\* runFlowsAction, main.go 396-417: the sink is built, the flow files are run
\* one after the other until one fails, and the sink is closed on the way out
S_quiet == [S_login EXCEPT !.Name = "quiet", !.Export = FALSE]

ExportFlows ==
    { <<S_login, S_sql>>, <<S_skip, S_mongo>>, <<S_quiet, S_grpc>>, <<S_skip>> }

\* the flow files given on the command line: one or two of them
TargetLists ==
    {<<a>> : a \in ExportFlows} \cup {<<a, b>> : a \in ExportFlows, b \in {<<S_skip>>, <<S_login, S_sql>>}}

\* the vars a flow file after the first declares
LaterVars == [k \in {"base", "token"} |-> IF k = "base" THEN "http://b" ELSE "t"]

\* the setup that declares user_id, run with and without an override of it
ExportSetups ==
    UNION {{su, [su EXCEPT !.overrides = [k \in {"delay"} |-> "1s"]]} :
              su \in {x \in Setups : "user_id" \in DOMAIN x.Vars}}

\* a runner whose flows share one store: the next flow's vars and the
\* overrides are laid over what the flow before left
startFlow_keepsStore(t) ==
    /\ flow' = t
    /\ vars' = MapsCopy(MapsCopy(vars, t.Vars), overrides)
    /\ status' = [i \in 1..Len(t.Steps) |-> "pending"]
    /\ timer' = [i \in 1..Len(t.Steps) |-> "none"]
    /\ done' = [i \in 1..Len(t.Steps) |-> FALSE]
    /\ signalChan' = [i \in 1..Len(t.Steps) |-> "none"]
    /\ cur' = 1
    /\ pc' = "loop"

\* RunFlow's entry, main.go 502-519, for the flow file t: a fresh store
\* and every step of the file ahead
startFlow(t) ==
    /\ flow' = t
    /\ vars' = mergeVars(t.Vars, overrides)
    /\ status' = [i \in 1..Len(t.Steps) |-> "pending"]
    /\ timer' = [i \in 1..Len(t.Steps) |-> "none"]
    /\ done' = [i \in 1..Len(t.Steps) |-> FALSE]
    /\ signalChan' = [i \in 1..Len(t.Steps) |-> "none"]
    /\ cur' = 1
    /\ pc' = "loop"

\* runFlowsAction, main.go 396-400: newFlowRunner opens the sink, or the
\* command exits with its error
NewFlowRunner ==
    /\ pc = "new"
    /\ LET r == newVarExporter(ExportPath, disk)
       IN  /\ exporter' = r.exporter
           /\ disk' = r.disk
           /\ result' = r.err
           /\ pc' = IF r.err = NoErr THEN "loop" ELSE "exited"
    /\ UNCHANGED <<targets, flow, overrides, osEnv, vars, cur, status, ctxCancelled,
                   interrupts, timer, done, signalChan, remaining, hist>>

\* runFlowsAction, main.go 408-417: the flow returned nil and another file
\* follows
NextTarget ==
    /\ pc = "returned" /\ result = NoErr
    /\ targets # <<>>
    /\ startFlow(Head(targets))
    /\ targets' = Tail(targets)
    /\ last' = NoLast
    /\ saved' = EmptyMap
    /\ completed' = <<>>
    /\ issued' = {}
    /\ checked' = {}
    /\ exportedBy' = {}
    /\ UNCHANGED <<disk, overrides, osEnv, exporter, result, ctxCancelled, interrupts,
                   remaining, lastSeen>>

\* runFlowsAction, main.go 401-406: the deferred Close runs when a flow failed
\* or the last one returned
CloseRunner ==
    /\ pc = "returned"
    /\ result # NoErr \/ targets = <<>>
    /\ disk' = Close(exporter, disk)
    /\ pc' = "closed"
    /\ UNCHANGED <<targets, flow, overrides, osEnv, vars, exporter, cur, result, status,
                   ctxCancelled, interrupts, timer, done, signalChan, remaining, hist>>

InitExport ==
    /\ \E su \in ExportSetups, ts \in TargetLists :
          /\ flow = [Vars |-> su.Vars, Steps |-> Head(ts)]
          /\ targets = [i \in 1..(Len(ts) - 1) |-> [Vars |-> LaterVars, Steps |-> ts[i + 1]]]
          /\ overrides = su.overrides
          /\ osEnv = su.osEnv
          /\ vars = mergeVars(su.Vars, su.overrides)
          /\ status = [i \in 1..Len(Head(ts)) |-> "pending"]
          /\ timer = [i \in 1..Len(Head(ts)) |-> "none"]
          /\ done = [i \in 1..Len(Head(ts)) |-> FALSE]
          /\ signalChan = [i \in 1..Len(Head(ts)) |-> "none"]
    /\ \E d \in BOOLEAN : disk = [dir |-> d, file |-> NoFile]
    /\ exporter = NoExporter
    /\ pc = "new"
    /\ cur = 1
    /\ result = NoErr
    /\ ctxCancelled = FALSE
    /\ interrupts = 0
    /\ remaining = 0
    /\ lastSeen = [step |-> 0, ctx |-> EmptyMap]
    /\ last = NoLast
    /\ saved = EmptyMap
    /\ completed = <<>>
    /\ issued = {}
    /\ checked = {}
    /\ exportedBy = {}

NextExport ==
    \/ NewFlowRunner
    \/ StepSkip
    \/ ExecHTTP
    \/ ExecSQL
    \/ ExecMongo
    \/ ExecGRPC
    \/ NextTarget
    \/ CloseRunner

SpecExport == InitExport /\ [][NextExport]_vars_

\* ------------------------------------------------ command line and headers
\* the --var values a caller may give
VarPairs == {"", "foo=bar", " spaced = value ", "invalid", " =x", "foo=a=b", " foo= 2"}

PairLists == UNION {[1..n -> VarPairs] : n \in 0..2}

ArgSetups ==
    {[Vars |-> [k \in {"token", "customer"} |-> IF k = "token" THEN "abc123" ELSE "enterprise"],
      overrides |-> o, osEnv |-> EmptyMap] :
        o \in {EmptyMap, [k \in {"token"} |-> " t "]}}

\* runFlowsAction, main.go 387-390: the --var values are parsed
ParseOverridesCall ==
    /\ ready
    /\ \E pairs \in PairLists :
          LET r == parseVarOverrides(pairs) IN
          finish(Res(r.err, vars, exporter, FALSE, NoOp),
                 [kind |-> "overrides", pairs |-> pairs, out |-> r.overrides])

\* metadata blocks of an RPC step: that of TestBuildGRPCHeaders, keys
\* written with spaces around them, keys out of order, a missing variable
MetadataMaps ==
    { EmptyMap,
      [k \in {"authorization", "x-customer", "  "} |->
          CASE k = "authorization" -> "Bearer {{.token}}"
            [] k = "x-customer" -> "{{toUpper .customer}}"
            [] OTHER -> "ignored"],
      [k \in {" x-id "} |-> "{{.token}}"],
      [k \in {"b", "a", "B"} |-> IF k = "a" THEN " {{.missing}} " ELSE "v-" \o k],
      [k \in {"a", " a"} |-> IF k = "a" THEN "1" ELSE "2"] }

\* executeGRPCStep, main.go 1047-1048: the step's metadata becomes headers
BuildHeadersCall ==
    /\ ready
    /\ \E values \in MetadataMaps :
          finish(Res(NoErr, vars, exporter, FALSE, NoOp),
                 [kind |-> "headers", values |-> values, out |-> buildGRPCHeaders(values, vars)])

InitArgs == InitFrom(ArgSetups, {<<S_grpc>>})

NextArgs ==
    \/ ParseOverridesCall
    \/ BuildHeadersCall

SpecArgs == InitArgs /\ [][NextArgs]_vars_

\* ------------------------------------------------------------ the wait loop
\* runs of one waiting step, alone or followed by a request, under a
\* scheduler that lets the sleeping goroutine and the wait loop's select run
\* the setups of a run, and one that declares no delay
WaitSetups ==
    Setups \cup {[Vars |-> [k \in {"base"} |-> "http://a"], overrides |-> EmptyMap,
                  osEnv |-> EmptyMap]}

InitWait == InitFrom(WaitSetups, {<<S_wait>>, <<S_wait, S_login>>})

NextWait ==
    \/ StepWaitInvalid
    \/ StepWaitStart
    \/ WaitDone
    \/ WaitTick
    \/ WaitSignal
    \/ TimerFire
    \/ Interrupt
    \/ ExecHTTP

\* time.Sleep returns (main.go 587-590) and a select with a ready case takes
\* one (main.go 595-608)
FairWait == WF_vars_(TimerFire) /\ WF_vars_(WaitDone) /\ WF_vars_(WaitSignal)

SpecWait == InitWait /\ [][NextWait]_vars_ /\ FairWait

\* ----------------------------------------------------------------- claims
\* the flow's declared vars overlaid by the caller's overrides, name by name
ExpectedBase ==
    [k \in DOMAIN flow.Vars \cup DOMAIN overrides |->
        IF k \in DOMAIN overrides THEN overrides[k] ELSE flow.Vars[k]]

\* the step the latest executeStep call ran
LastStep == flow.Steps[last.step]

\* the latest call was an HTTP step whose request completed with a response
HTTPCompleted == last.step > 0 /\ last.op.kind = "http" /\ last.got.kind = "resp"

\* what a save path resolves to in a response body
Resolved(body, path) == gjsonString(gjsonGet(body, path))

\* the variable k is in store b exactly as it is in store a
SameAt(a, b, k) == (k \in DOMAIN a <=> k \in DOMAIN b) /\ (k \in DOMAIN a => a[k] = b[k])

\* C1: the context a step's templated fields are rendered against is the
\* flow's declared vars, overlaid by the overrides, overlaid by what the steps
\* before it saved (later writes over earlier ones), and holds nothing the
\* step itself or a later step saves: the wait is rendered against it, the
\* request of an HTTP step is built from it, and a step that follows a login
\* answered with data.id = "42" requests /users/42.
C1_LeftToRightVisibility ==
    /\ pc \in {"loop", "wait", "dispatch"} => vars = MapsCopy(ExpectedBase, saved)
    /\ (pc \in {"wait", "dispatch"} /\ lastSeen.step = cur)
          => lastSeen.ctx = MapsCopy(ExpectedBase, saved)
    /\ last.step > 0 =>
          /\ last.before = MapsCopy(ExpectedBase, last.savedBefore)
          /\ last.op.kind = "http" =>
                /\ last.op.target = render(LastStep.URL, MapsCopy(ExpectedBase, last.savedBefore))
                /\ last.op.text = LastStep.Method \o " "
                                  \o render(LastStep.Body, MapsCopy(ExpectedBase, last.savedBefore))
          /\ (/\ last.step = 2
              /\ last.op.kind = "http"
              /\ LastStep.URL = "/users/{{.user_id}}"
              /\ flow.Steps[1] = S_login
              /\ Len(exporter.records) >= 1
              /\ exporter.records[1].step = "login"
              /\ exporter.records[1].vars["user_id"] = "42")
                => last.op.target = "/users/42"

\* a two-step run in which the login saved "42" over the override "9" and the
\* next step requested /users/42
C1_Witness ==
    /\ NSteps = 2 /\ last.step = 2
    /\ flow.Steps[1] = S_login /\ flow.Steps[2] = S_wait
    /\ overrides = [k \in {"user_id", "delay"} |-> IF k = "user_id" THEN "9" ELSE "1s"]
    /\ last.op.target = "/users/42"
    /\ last.savedBefore = [k \in {"user_id"} |-> "42"]

\* the step j has not been touched by the run
Untouched(j) ==
    /\ status[j] = "pending"
    /\ timer[j] = "none" /\ signalChan[j] = "none" /\ ~done[j]
    /\ j \notin issued /\ j \notin checked /\ j \notin exportedBy
    /\ \A n \in DOMAIN completed : completed[n] # j
    /\ last.step # j /\ lastSeen.step # j

\* C2: when executeStep returns an error for step i, RunFlow returns that
\* error and no step after i waits, sends an operation, has its expectation
\* evaluated, saves or exports; RunFlow returns nil exactly when no step
\* failed.
C2_FailFast ==
    /\ \A i \in 1..NSteps :
          status[i] = "failed" =>
             /\ pc = "returned"
             /\ last.step = i /\ last.err # NoErr /\ result = last.err
             /\ vars = last.after
             /\ \A j \in (i + 1)..NSteps : Untouched(j)
    /\ pc = "returned" =>
          /\ result = NoErr <=> \A i \in 1..NSteps : status[i] = "ok"
          /\ result # NoErr => \E i \in 1..NSteps : status[i] = "failed"

\* a run whose first step failed with a step still to come
C2_Witness ==
    /\ NSteps >= 2 /\ status[1] = "failed" /\ pc = "returned"
    /\ result = "unexpected status"
    /\ ~flow.Steps[2].Skip

\* C3: the store the first step sees holds, for a name in both the flow's
\* vars and the overrides, the override's value, and for a name in only one
\* of them that one's value, and no other name.
C3_OverridePrecedence ==
    LET first == IF last.step = 1 THEN last.before
                 ELSE IF lastSeen.step = 1 THEN lastSeen.ctx
                 ELSE vars
    IN  (last.step = 1 \/ lastSeen.step = 1 \/ (cur = 1 /\ pc = "loop")) =>
           /\ DOMAIN first = DOMAIN flow.Vars \cup DOMAIN overrides
           /\ \A k \in DOMAIN flow.Vars \cap DOMAIN overrides : first[k] = overrides[k]
           /\ \A k \in DOMAIN flow.Vars \ DOMAIN overrides : first[k] = flow.Vars[k]
           /\ \A k \in DOMAIN overrides \ DOMAIN flow.Vars : first[k] = overrides[k]

\* the first step posted the overriding user_id "9", not the declared "7",
\* to the declared base
C3_Witness ==
    /\ last.step = 1 /\ flow.Steps[1] = S_login
    /\ Lookup(flow.Vars, "user_id") = "7" /\ Lookup(overrides, "user_id") = "9"
    /\ last.op.text = "POST 9"
    /\ last.op.target = "http://a/login"


\* C4: at most one step is in execution; a step has begun only when every
\* step before it has completed, with success or failure; the steps whose
\* executeStep call returned did so in step order, the latest call being the
\* latest of them, so that the writes to the store are ordered by step.
C4_OneStepAtATime ==
    /\ Cardinality({i \in 1..NSteps : status[i] = "running"}) <= 1
    /\ \A i \in 1..NSteps :
          /\ status[i] = "running" => i = cur /\ pc \notin {"loop", "returned"}
          /\ (\/ status[i] # "pending" \/ timer[i] # "none" \/ signalChan[i] # "none"
              \/ i \in issued \/ lastSeen.step = i \/ last.step = i)
                => \A j \in 1..(i - 1) : status[j] \in {"ok", "failed"}
    /\ \A a, b \in DOMAIN completed : a < b => completed[a] < completed[b]
    /\ \A n \in DOMAIN completed : status[completed[n]] \in {"ok", "failed"}
    /\ last.step > 0 => completed # <<>> /\ last.step = completed[Len(completed)]
    /\ last.step = 0 => completed = <<>> /\ saved = EmptyMap

\* the second step is in its wait after the first one waited, sent its
\* request and returned
C4_Witness ==
    /\ NSteps >= 2 /\ status[1] = "ok" /\ status[2] = "running" /\ pc = "wait"
    /\ last.step = 1 /\ timer[1] = "fired" /\ timer[2] = "sleeping"

\* C5: a step in its wait whose context has been cancelled, or to whose
\* channel an interrupt has been delivered, can leave the wait while the
\* sleeping goroutine has not yet reported the end of the duration; and a step
\* that got past the parsing of its wait never fails with the wait's error.
C5_WaitEndsEarly ==
    /\ (/\ pc = "wait"
        /\ timer[cur] = "sleeping"
        /\ ctxCancelled \/ signalChan[cur] = "full")
          => ENABLED (WaitDone \/ WaitSignal)
    /\ \A i \in 1..NSteps :
          (status[i] = "failed" /\ done[i]) => result # "parse wait duration"

\* C6: no skipped step is ever running or failed, starts a sleeping
\* goroutine, registers a signal channel, has its wait rendered, is handed to
\* an executor, sends an operation, has an expectation evaluated or exports,
\* though it declares a wait, a save and an export and lacks the protocol
\* fields; the step the run takes over a skipped step marks it done with
\* success and changes nothing else, store and sink included; and a step that
\* declares a wait is classified only after its wait is over.
C6_SkipLeavesNoTrace ==
    /\ [](/\ \A i \in 1..NSteps :
                flow.Steps[i].Skip =>
                   /\ status[i] \in {"pending", "ok"}
                   /\ timer[i] = "none" /\ signalChan[i] = "none" /\ ~done[i]
                   /\ i \notin issued /\ i \notin checked /\ i \notin exportedBy
                   /\ \A n \in DOMAIN completed : completed[n] # i
                   /\ last.step # i /\ lastSeen.step # i
                   /\ cur > i => status[i] = "ok"
          /\ \A i \in 1..NSteps :
                (flow.Steps[i].Wait # "" /\ last.step = i)
                   => lastSeen.step >= i /\ (done[i] \/ last.err = "parse wait duration"))
    /\ [][(pc = "loop" /\ cur <= NSteps /\ Step.Skip /\ status' # status)
             => /\ status' = [status EXCEPT ![cur] = "ok"]
                /\ cur' = cur + 1
                /\ result' = NoErr
                /\ pc' \in {"loop", "returned"}
                /\ UNCHANGED <<vars, exporter, timer, done, signalChan, remaining, hist>>]_vars_

\* a skipped first step that declares a wait, save and export but no protocol
\* was passed over and the second step has run
C6_Witness ==
    /\ NSteps >= 2 /\ flow.Steps[1] = S_skip /\ status[1] = "ok"
    /\ last.step = 2 /\ last.err = NoErr
    /\ last.before = ExpectedBase


\* C7: when the latest call ran the path extraction (an HTTP step past its
\* status check, or a document-store or RPC step that succeeded, with save
\* entries and a valid JSON payload), each save entry whose path resolves to a
\* non-empty value has set its variable to that value, each entry whose path
\* resolves to the empty string, to null or to nothing has left its variable
\* as it was, unset if it was unset, every variable not named in save is as
\* it was, and the step has not failed.
C7_SaveEntriesIndependent ==
    (/\ last.step > 0
     /\ \/ HTTPCompleted /\ (LastStep.ExpectStatus = 0 \/ last.got.status = LastStep.ExpectStatus)
        \/ last.op.kind \in {"mongo", "grpc"} /\ last.err = NoErr
     /\ DOMAIN LastStep.Save # {}
     /\ last.got.body.valid)
       => /\ last.err = NoErr
          /\ \A k \in DOMAIN LastStep.Save :
                IF Resolved(last.got.body, LastStep.Save[k]) # ""
                THEN /\ k \in DOMAIN last.after
                     /\ last.after[k] = Resolved(last.got.body, LastStep.Save[k])
                ELSE SameAt(last.before, last.after, k)
          /\ \A k \in (DOMAIN last.before \cup DOMAIN last.after) \ DOMAIN LastStep.Save :
                SameAt(last.before, last.after, k)

\* a login answered with data.id = "42" and no data.n: user_id went from "9"
\* to "42", n stayed unset, base stayed
C7_Witness ==
    /\ last.step > 0 /\ LastStep = S_login /\ last.got.body = Body42
    /\ last.got.status = 200
    /\ Lookup(last.before, "user_id") = "9" /\ Lookup(last.after, "user_id") = "42"
    /\ "n" \notin DOMAIN last.after
    /\ Lookup(last.after, "base") = "http://a"

\* C8: a step whose operation failed with a connect, dial, ping or transport
\* error has failed, its expectation has not been evaluated, and it has
\* saved no variable and written no export record.
C8_TransportFailureLeavesNoTrace ==
    (/\ last.step > 0
     /\ last.err \in {"send request", "read response body", "open database", "ping database",
                      "query sql", "execute sql", "iterate rows", "connect mongo",
                      "ping mongo", "mongo findone failed", "dial grpc", "grpc call"})
       => /\ status[last.step] = "failed"
          /\ ~last.checked
          /\ last.after = last.before
          /\ last.exported = 0

\* C9: an HTTP step whose request completed has failed exactly when its
\* expect_status is non-zero and differs from the response's status code, and
\* a step that failed so has saved no variable and written no export record.
C9_StatusExpectation ==
    HTTPCompleted =>
       /\ last.err # NoErr <=>
             (LastStep.ExpectStatus # 0 /\ last.got.status # LastStep.ExpectStatus)
       /\ last.err # NoErr =>
             /\ last.err = "unexpected status"
             /\ status[last.step] = "failed"
             /\ last.after = last.before
             /\ last.exported = 0

\* a login expecting 200 was answered 404 with a body its save paths match
C9_Witness ==
    /\ HTTPCompleted /\ LastStep = S_login
    /\ last.got.status = 404 /\ last.got.body = Body42
    /\ last.err = "unexpected status"
    /\ Lookup(last.before, "user_id") = "9"

\* C10: an HTTP step that passed its status expectation has succeeded; when
\* it declares a save path and the body is valid JSON every path that
\* resolves to a non-empty value has been stored, and otherwise the store is
\* as it was before the step.
C10_ExtractionOnlyFromJSON ==
    (HTTPCompleted /\ (LastStep.ExpectStatus = 0 \/ last.got.status = LastStep.ExpectStatus))
       => /\ last.err = NoErr
          /\ status[last.step] = "ok"
          /\ IF DOMAIN LastStep.Save # {} /\ last.got.body.valid
             THEN \A k \in DOMAIN LastStep.Save :
                     Resolved(last.got.body, LastStep.Save[k]) # ""
                        => Lookup(last.after, k) = Resolved(last.got.body, LastStep.Save[k])
             ELSE last.after = last.before

\* a step that declares a save path was answered with a body that is not
\* JSON: it succeeded, exported, and the store is as before
C10_Witness ==
    /\ HTTPCompleted /\ LastStep = S_wait
    /\ last.got.body = BodyText
    /\ last.err = NoErr /\ last.exported = 1
    /\ last.after = last.before


\* C12: whenever a SQL step, or a document-store insertOne or command,
\* reaches the affected-row check, the step fails with the mismatch error
\* exactly when expect_affected_rows is non-zero and differs from the count
\* (the rows affected or returned, 1 for the two document-store operations);
\* with expect_affected_rows 0 it passes whatever the count.
C12_AffectedRowsCheck ==
    (/\ last.step > 0 /\ last.checked
     /\ \/ last.op.kind = "sql"
        \/ last.op.kind = "mongo" /\ last.op.text \in {"insertone", "command"})
       => LET actual == IF last.op.kind = "mongo" THEN 1
                        ELSE IF DOMAIN LastStep.Save = {} THEN last.got.affected
                        ELSE Len(last.got.rows)
              expect == LastStep.ExpectAffectedRows
          IN  /\ last.err # NoErr <=> (expect # 0 /\ expect # actual)
              /\ last.err # NoErr => last.err = "unexpected affected rows"
              /\ expect = 0 => status[last.step] = "ok"

\* a statement that affected two rows passed a step expecting 0
C12_Witness ==
    /\ last.step > 0 /\ last.op.kind = "sql" /\ last.checked
    /\ DOMAIN LastStep.Save = {} /\ LastStep.ExpectAffectedRows = 0
    /\ last.got.affected = 2
    /\ last.err = NoErr


SQLRan == last.step > 0 /\ last.op.kind = "sql"

\* the last call ran a query for a step that declares save and the driver
\* delivered the result set without a scan or iteration error
RowsBack ==
    /\ SQLRan /\ DOMAIN LastStep.Save # {}
    /\ last.got.kind = "ok" /\ last.got.scanErrAt = 0 /\ ~last.got.iterErr

\* the column a save entry names, folded: the entry's value, or the variable
\* name when the value is blank
ColumnOf(k) ==
    LET v == TrimSpace(LastStep.Save[k]) IN ToLower(IF v = "" THEN k ELSE v)

\* the positions of the result columns of that name
Positions(k) ==
    {i \in 1..Len(last.got.cols) : ToLower(last.got.cols[i]) = ColumnOf(k)}

\* the save entries that name a column the result set does not have
Missing == {k \in DOMAIN LastStep.Save : Positions(k) = {}}

\* the first row's value in the column of the save entry
FirstRowCell(k) == last.got.rows[1][CHOOSE i \in Positions(k) : TRUE]

\* C13: a query for a step that declares save which returns no rows fails
\* with "no rows returned to save" for every expect_affected_rows, zero
\* included; a statement of a step without save that reports zero affected
\* rows succeeds when expect_affected_rows is zero.
C13_ZeroRows ==
    /\ (RowsBack /\ Len(last.got.rows) = 0)
          => /\ last.err = "no rows returned to save"
             /\ status[last.step] = "failed"
             /\ last.after = last.before
    /\ (/\ SQLRan /\ DOMAIN LastStep.Save = {} /\ last.got.kind = "ok"
        /\ last.got.affected = 0 /\ LastStep.ExpectAffectedRows = 0)
          => /\ last.err = NoErr
             /\ status[last.step] = "ok"

\* a step that declares save and expects zero rows, and gets none
C13_Witness ==
    /\ RowsBack /\ Len(last.got.rows) = 0
    /\ LastStep.ExpectAffectedRows = 0
    /\ last.err = "no rows returned to save"

\* C14 (as stated): with at least one row back, no save entry fails the
\* step: one whose column is NULL in the first row or absent from the
\* result set leaves its variable as it was, and the call ends without a
\* save-related error.
C14_NothingResolvedNeverFails ==
    (RowsBack /\ Len(last.got.rows) >= 1) =>
       /\ last.err \in {NoErr, "unexpected affected rows"}
       /\ \A k \in DOMAIN LastStep.Save :
             (k \in Missing \/ FirstRowCell(k).null) => SameAt(last.before, last.after, k)

\* C14 (amended): with at least one row back, a save entry whose column is
\* NULL in the first row leaves its variable as it was and does not fail
\* the step, while an entry naming a column the result set does not have
\* fails the step with "column not found in result set"; that and zero rows
\* are the save-related failures.
C14_NullSkippedMissingFails ==
    (RowsBack /\ Len(last.got.rows) >= 1) =>
       /\ Missing = {} => last.err \in {NoErr, "unexpected affected rows"}
       /\ Missing # {} => /\ last.err = "column not found in result set"
                          /\ status[last.step] = "failed"
       /\ \A k \in DOMAIN LastStep.Save \ Missing :
             FirstRowCell(k).null => SameAt(last.before, last.after, k)

\* a row came back, one entry names a column that is not in it, and the
\* step failed on that entry
C14_Witness ==
    /\ RowsBack /\ Len(last.got.rows) >= 1
    /\ Missing # {} /\ Missing # DOMAIN LastStep.Save
    /\ last.err = "column not found in result set"
    /\ status[last.step] = "failed"

\* C15: with n >= 1 rows back and every named column present, the step
\* fails the affected-row check exactly when expect_affected_rows is not
\* zero and not n, and the store after the call is the store before it with
\* each saved variable set from the first row (a NULL leaving it alone):
\* later rows change nothing.
C15_AllRowsCountedFirstRowSaved ==
    (RowsBack /\ Len(last.got.rows) >= 1 /\ Missing = {}) =>
       /\ last.checked
       /\ last.err # NoErr <=> /\ LastStep.ExpectAffectedRows # 0
                               /\ LastStep.ExpectAffectedRows # Len(last.got.rows)
       /\ \A k \in DOMAIN LastStep.Save :
             IF FirstRowCell(k).null THEN SameAt(last.before, last.after, k)
             ELSE Lookup(last.after, k) = FirstRowCell(k).s
       /\ \A k \in (DOMAIN last.before \cup DOMAIN last.after) \ DOMAIN LastStep.Save :
             SameAt(last.before, last.after, k)

\* two rows that differ in the saved column, counted as two, saved from the
\* first
C15_Witness ==
    /\ RowsBack /\ Len(last.got.rows) = 2 /\ Missing = {}
    /\ LastStep.ExpectAffectedRows = 2 /\ last.err = NoErr
    /\ \E k \in DOMAIN LastStep.Save :
          /\ Lookup(last.after, k) = FirstRowCell(k).s
          /\ last.got.rows[2][CHOOSE i \in Positions(k) : TRUE].s # FirstRowCell(k).s

\* C16: once the first row was scanned and no entry named an absent column,
\* each save entry has read the result column whose name equals the entry's
\* value without regard to letter case, or equals the variable name when
\* the value is blank, and the variable holds that column's first-row value.
C16_ColumnResolution ==
    (/\ SQLRan /\ DOMAIN LastStep.Save # {} /\ last.got.kind = "ok"
     /\ Len(last.got.rows) >= 1 /\ last.got.scanErrAt # 1) =>
       LET name(k) == IF TrimSpace(LastStep.Save[k]) = "" THEN k
                      ELSE TrimSpace(LastStep.Save[k])
           at(k) == {i \in 1..Len(last.got.cols) :
                        ToUpper(last.got.cols[i]) = ToUpper(name(k))}
       IN  /\ last.err = "column not found in result set"
                 <=> \E k \in DOMAIN LastStep.Save : at(k) = {}
           /\ last.err # "column not found in result set" =>
                 \A k \in DOMAIN LastStep.Save : \A i \in at(k) :
                    ~last.got.rows[1][i].null => Lookup(last.after, k) = last.got.rows[1][i].s

\* an entry spelled in another case than the column, and a blank entry that
\* falls back on the variable name, both stored
C16_Witness ==
    /\ RowsBack /\ Len(last.got.rows) >= 1 /\ last.err = NoErr
    /\ \E k \in DOMAIN LastStep.Save :
          /\ TrimSpace(LastStep.Save[k]) # ""
          /\ \A i \in 1..Len(last.got.cols) : last.got.cols[i] # TrimSpace(LastStep.Save[k])
          /\ Lookup(last.after, k) = "5"
    /\ \E k \in DOMAIN LastStep.Save :
          /\ TrimSpace(LastStep.Save[k]) = ""
          /\ Lookup(last.after, k) = "ann"


\* ---- connection targets
\* a or, when a is blank, b
OrElse(a, b) == IF TrimSpace(a) # "" THEN TrimSpace(a) ELSE TrimSpace(b)

\* what the claim says the SQL connection string of the last step is
WantDBURL ==
    OrElse(render(LastStep.DatabaseURL, last.before),
           OrElse(Lookup(last.before, "database_url"), Lookup(osEnv, "DATABASE_URL")))

\* what the claim says the document-store URI, database and collection of
\* the last step are
WantURI ==
    OrElse(render(LastStep.Mongo.URI, last.before),
           OrElse(Lookup(last.before, "mongo_uri"), Lookup(osEnv, "MONGO_URI")))

WantDatabase ==
    OrElse(render(LastStep.Mongo.Database, last.before), Lookup(last.before, "mongo_database"))

WantCollection ==
    OrElse(render(LastStep.Mongo.Collection, last.before),
           Lookup(last.before, "mongo_collection"))

ConfigErrors ==
    {"requires database_url", "requires mongo.uri", "requires mongo.database",
     "requires mongo.collection"}

\* C17: the target a SQL or document-store call went to is the first
\* non-blank candidate in the order step field, variable, environment
\* (database and collection: step field, variable); when a needed target has
\* only blank candidates the call returns the configuration error for the
\* first such target and nothing was sent; a command needs no collection.
C17_TargetResolution ==
    /\ (last.step > 0 /\ LastStep \in SQLSteps) =>
          /\ WantDBURL = "" => last.err = "requires database_url" /\ last.op = NoOp
          /\ WantDBURL # "" => /\ last.err \notin ConfigErrors
                               /\ last.op # NoOp => last.op.target = WantDBURL
    /\ (last.step > 0 /\ LastStep \in MongoSteps) =>
          LET isCommand == normalizeMongoOperation(LastStep.Mongo.Operation) = "command"
              want == IF WantURI = "" THEN "requires mongo.uri"
                      ELSE IF WantDatabase = "" THEN "requires mongo.database"
                      ELSE IF ~isCommand /\ WantCollection = ""
                           THEN "requires mongo.collection"
                      ELSE NoErr
          IN  /\ want # NoErr => last.err = want /\ last.op = NoOp
              /\ want = NoErr =>
                    /\ last.err \notin ConfigErrors
                    /\ last.op # NoOp =>
                          last.op.target =
                             WantURI \o "/" \o WantDatabase
                                \o (IF isCommand THEN "" ELSE "." \o WantCollection)

\* the step field and the variable are blank and the environment supplies
\* the connection string the statement was sent to
C17_Witness ==
    /\ last.step > 0 /\ LastStep \in SQLSteps
    /\ TrimSpace(render(LastStep.DatabaseURL, last.before)) = ""
    /\ "database_url" \in DOMAIN last.before
    /\ TrimSpace(Lookup(last.before, "database_url")) = ""
    /\ last.op # NoOp
    /\ last.op.target = "pg://env"


\* ---- the document-store executor seen through the last call
\* the last call sent its operation to the document store
MongoRan == last.step > 0 /\ LastStep \in MongoSteps /\ last.op.kind = "mongo"

\* C18: a findOne that matched no document has been checked against
\* expect_affected_rows with the count 0, so it fails exactly when that is
\* not zero and then with the affected-rows error; its result is the JSON
\* null; and the store is as before the call.
C18_FindOneNoMatch ==
    (MongoRan /\ last.op.text = "findone" /\ last.got.kind = "nodoc") =>
       /\ last.checked
       /\ last.err # NoErr <=> LastStep.ExpectAffectedRows # 0
       /\ last.err # NoErr => last.err = "unexpected affected rows"
       /\ LastStep.ExpectAffectedRows = 0 => status[last.step] = "ok"
       /\ last.after = last.before
       /\ LET r == runMongoOperation(LastStep.Mongo, "findone", last.before, last.got)
          IN  r.affected = 0 /\ r.payload.valid /\ r.payload.doc = JNull

\* a findOne with save and no expectation that matched nothing and succeeded
C18_Witness ==
    /\ MongoRan /\ last.op.text = "findone" /\ last.got.kind = "nodoc"
    /\ LastStep.ExpectAffectedRows = 0
    /\ DOMAIN LastStep.Save # {}
    /\ last.err = NoErr /\ status[last.step] = "ok"
    /\ last.after = last.before

\* the count the claim gives for the last operation and what the store
\* answered
ClaimedCount ==
    CASE last.op.text = "findone" -> IF last.got.kind = "nodoc" THEN 0 ELSE 1
      [] last.op.text \in {"find", "aggregate", "deleteone"} -> last.got.n
      [] last.op.text \in {"insertone", "command"} -> 1
      [] last.op.text = "updateone" ->
            IF last.got.n = 0 THEN last.got.upserted ELSE last.got.n
      [] OTHER -> 0

\* C19: an operation the document store answered is checked against
\* expect_affected_rows with the count of its kind: the step fails the
\* check exactly when expect_affected_rows is not zero and differs from
\* that count.
C19_AffectedPerOperation ==
    (/\ MongoRan
     /\ last.got.kind = "ok" \/ (last.got.kind = "nodoc" /\ last.op.text = "findone")) =>
       /\ last.checked
       /\ last.err # NoErr <=> /\ LastStep.ExpectAffectedRows # 0
                               /\ LastStep.ExpectAffectedRows # ClaimedCount
       /\ last.err # NoErr => last.err = "unexpected affected rows"

\* an update that modified nothing and upserted one document passes an
\* expectation of one
C19_Witness ==
    /\ MongoRan /\ last.op.text = "updateone" /\ last.got.kind = "ok"
    /\ last.got.n = 0 /\ last.got.upserted = 1
    /\ LastStep.ExpectAffectedRows = 1
    /\ last.err = NoErr


\* ---- expected-status parsing
\* v is a decimal integer: an optional sign and then digits only
IsDecimal(v) ==
    LET d == IF Len(v) > 0 /\ SubSeq(v, 1, 1) \in {"+", "-"} THEN SubSeq(v, 2, Len(v)) ELSE v
    IN  d # "" /\ \A i \in 1..Len(d) : IsDigit(SubSeq(d, i, i))

\* the integer a decimal string denotes
IntOf(v) ==
    IF SubSeq(v, 1, 1) = "-" THEN 0 - Atoi(SubSeq(v, 2, Len(v)))
    ELSE IF SubSeq(v, 1, 1) = "+" THEN Atoi(SubSeq(v, 2, Len(v)))
    ELSE Atoi(v)

\* the code c is the number n
IsCode(c, n) == n >= 0 /\ c.hi = n \div 65536 /\ c.lo = n % 65536

\* C20: parseGRPCCode on a blank string returns the success code; on a
\* canonical status name in any letter case the code of that name; on a
\* decimal integer string the code of that number; on anything else an
\* error.
C20_ParseExpectCode ==
    (last.step > 0 /\ last.got.kind = "code") =>
       LET v == TrimSpace(last.got.value)
           named == {i \in 1..Len(grpcCodeNames) : ToLower(grpcCodeNames[i]) = ToLower(v)}
       IN  IF v = "" THEN last.got.ok /\ IsCode(last.got.code, 0)
           ELSE IF named # {}
                THEN last.got.ok /\ \A i \in named : IsCode(last.got.code, i - 1)
           ELSE IF IsDecimal(v) THEN last.got.ok /\ IsCode(last.got.code, IntOf(v))
           ELSE ~last.got.ok


\* ---- the RPC executor seen through the last call
\* the last call was an RPC that ran to completion: it was invoked and the
\* handler reported no error
GRPCCompleted == last.step > 0 /\ last.op.kind = "grpc" /\ last.got.kind = "ok"

\* the status code of the completed call, a call without status counting
\* as the success code
RespCode == IF last.got.hasStatus THEN last.got.code ELSE 0

\* C21: a completed RPC step succeeds exactly when the call's status code
\* is the expected code: the parsed expect_code when one is declared, the
\* success code otherwise.  With NOT_FOUND declared a call returning 5
\* succeeds and one returning OK fails; with none declared a non-success
\* code fails.  A failed step leaves the store as it was.
C21_StatusAgainstExpectCode ==
    GRPCCompleted =>
       LET declared == TrimSpace(LastStep.GRPC.ExpectCode)
           parsed == parseGRPCCode(declared)
           matches == IF declared = "" THEN RespCode = 0
                      ELSE parsed.ok /\ IsCode(parsed.code, RespCode)
       IN  /\ last.err = NoErr <=> matches
           /\ status[last.step] = (IF matches THEN "ok" ELSE "failed")
           /\ (declared = "NOT_FOUND" /\ RespCode = 5) => last.err = NoErr
           /\ (declared = "NOT_FOUND" /\ RespCode = 0) => last.err # NoErr
           /\ (declared = "" /\ RespCode # 0) => last.err # NoErr
           /\ last.err # NoErr => last.after = last.before

\* NOT_FOUND was expected and the call returned code 5 with a message: the
\* step succeeded
C21_Witness ==
    /\ GRPCCompleted
    /\ LastStep.GRPC.ExpectCode = "NOT_FOUND"
    /\ last.got.hasStatus /\ last.got.code = 5
    /\ Len(last.got.responses) = 1
    /\ last.err = NoErr /\ status[last.step] = "ok"

\* the texts of the messages from the k-th on, trimmed and comma-separated
RECURSIVE TrimmedFrom(_, _)
TrimmedFrom(messages, k) ==
    IF k > Len(messages) THEN ""
    ELSE TrimSpace(messages[k].raw)
            \o (IF k < Len(messages) THEN "," ELSE "") \o TrimmedFrom(messages, k + 1)

\* C22: the payload of a completed call: empty when no message arrived, and
\* then nothing is extracted; the one message's trimmed text when one
\* arrived; with two or more a JSON array whose k-th element is the k-th
\* message's trimmed text.  What a successful step saved was extracted from
\* that payload.
C22_ResponseCapture ==
    GRPCCompleted =>
       LET messages == last.got.responses
           payload == ResponsePayload(Received(messages))
       IN  /\ Len(messages) = 0 => payload.raw = "" /\ last.after = last.before
           /\ Len(messages) = 1 => /\ payload.raw = TrimSpace(messages[1].raw)
                                   /\ payload.doc = messages[1].doc
           /\ Len(messages) >= 2 =>
                 /\ payload.raw = "[" \o TrimmedFrom(messages, 1) \o "]"
                 /\ payload.doc.t = "arr"
                 /\ DOMAIN payload.doc.m = {Itoa(k - 1) : k \in 1..Len(messages)}
                 /\ \A k \in 1..Len(messages) : payload.doc.m[Itoa(k - 1)] = messages[k].doc
           /\ last.err = NoErr =>
                 \A v \in DOMAIN LastStep.Save :
                    IF payload.valid /\ Resolved(payload, LastStep.Save[v]) # ""
                    THEN Lookup(last.after, v) = Resolved(payload, LastStep.Save[v])
                    ELSE SameAt(last.before, last.after, v)

\* a stream of two padded messages, and a value saved from the second
C22_Witness ==
    /\ GRPCCompleted /\ last.err = NoErr
    /\ Len(last.got.responses) = 2
    /\ last.got.responses[1].raw # TrimSpace(last.got.responses[1].raw)
    /\ "k" \in DOMAIN LastStep.Save
    /\ Lookup(last.after, "k") = "7"


\* ---- descriptor sources
\* C23: a symbol lookup through the composite source asked reflection
\* first; when reflection resolved the symbol the lookup returned
\* reflection's descriptor and the static source was not asked; when
\* reflection did not, the static source was asked next and the lookup
\* returned its answer, descriptor or error.
C23_FindSymbolOrder ==
    (last.step > 0 /\ last.got.kind = "symbol") =>
       LET cs == last.got.cs
           found(src) == ~src.down /\ last.got.name \in src.symbols
       IN  /\ Head(last.got.queried) = "reflection"
           /\ found(cs.reflection) =>
                 /\ last.got.queried = <<"reflection">>
                 /\ last.err = NoErr
                 /\ last.got.d = [name |-> last.got.name, from |-> "reflection"]
           /\ ~found(cs.reflection) =>
                 /\ last.got.queried = <<"reflection", "file">>
                 /\ last.err = NoErr <=> found(cs.file)
                 /\ found(cs.file) => last.got.d = [name |-> last.got.name, from |-> "file"]
                 /\ last.err = sourceFindSymbol(cs.file, last.got.name).err

\* both sources know the symbol: reflection answered and the static source
\* was left alone
C23_Witness ==
    /\ last.step > 0 /\ last.got.kind = "symbol"
    /\ ~last.got.cs.reflection.down /\ ~last.got.cs.file.down
    /\ last.got.name \in last.got.cs.reflection.symbols \cap last.got.cs.file.symbols
    /\ last.got.queried = <<"reflection">>
    /\ last.got.d.from = "reflection"

\* C24: when both sources answer, the list the composite source returns
\* has the field numbers of the reflection list and of the static list,
\* each number once, every entry is one a source listed, and a number both
\* sources list is held by the reflection entry.
C24_ExtensionsMerged ==
    (/\ last.step > 0 /\ last.got.kind = "extensions"
     /\ ~last.got.cs.reflection.down /\ ~last.got.cs.file.down) =>
       LET exts == last.got.exts
           refl == last.got.cs.reflection.exts
           stat == last.got.cs.file.exts
           numbers(l) == {l[i].number : i \in 1..Len(l)}
       IN  /\ last.err = NoErr
           /\ numbers(exts) = numbers(refl) \cup numbers(stat)
           /\ \A i, j \in 1..Len(exts) : exts[i].number = exts[j].number => i = j
           /\ \A i \in 1..Len(exts) :
                 /\ \/ \E j \in 1..Len(refl) : exts[i] = refl[j]
                    \/ \E j \in 1..Len(stat) : exts[i] = stat[j]
                 /\ exts[i].number \in numbers(refl) => exts[i].from = "reflection"

\* the two sources share field number 2 and each has one of its own
C24_Witness ==
    /\ last.step > 0 /\ last.got.kind = "extensions"
    /\ ~last.got.cs.reflection.down /\ ~last.got.cs.file.down
    /\ Len(last.got.cs.reflection.exts) = 2 /\ Len(last.got.cs.file.exts) = 2
    /\ Len(last.got.exts) = 3
    /\ \E i \in 1..3 : last.got.exts[i] = [number |-> 2, from |-> "reflection"]
    /\ \E i \in 1..3 : last.got.exts[i] = [number |-> 3, from |-> "file"]

\* the schema inputs of the last step that are left after rendering
InputsLeft(list) ==
    {i \in 1..Len(list) : TrimSpace(render(list[i], last.before)) # ""}

\* C25: with inputs that load, the source chosen for an RPC step is
\* reflection when use_reflection is unset or true and there is no static
\* input, the composite when it is unset or true and there is one, the
\* static source when it is false and there is one; use_reflection false
\* without static input is a configuration error; and descriptor sets
\* together with schema files are a configuration error for every
\* use_reflection.  A static input is an entry that is not blank once
\* rendered.
C25_SourceSelection ==
    (last.step > 0 /\ last.got.kind = "source") =>
       LET cfg == LastStep.GRPC
           sets == InputsLeft(cfg.ProtoSets) # {}
           files == InputsLeft(cfg.ProtoFiles) # {}
           reflect == cfg.UseReflection \in {"unset", "true"}
       IN  /\ (sets /\ files) =>
                 /\ last.err = "cannot set both proto_sets and proto_files"
                 /\ last.got.source = "none"
           /\ (~(sets /\ files) /\ ~last.got.loadFails) =>
                 /\ (reflect /\ ~sets /\ ~files) =>
                       last.err = NoErr /\ last.got.source = "reflection"
                 /\ (reflect /\ (sets \/ files)) =>
                       last.err = NoErr /\ last.got.source = "composite"
                 /\ (~reflect /\ (sets \/ files)) =>
                       last.err = NoErr /\ last.got.source = "file"
                 /\ (~reflect /\ ~sets /\ ~files) =>
                       /\ last.err = "requires reflection or proto descriptors"
                       /\ last.got.source = "none"
           /\ last.err # NoErr => status[last.step] = "failed"

\* use_reflection left unset and a descriptor set that loads: the composite
C25_Witness ==
    /\ last.step > 0 /\ last.got.kind = "source"
    /\ LastStep.GRPC.UseReflection = "unset"
    /\ InputsLeft(LastStep.GRPC.ProtoSets) # {}
    /\ InputsLeft(LastStep.GRPC.ProtoFiles) = {}
    /\ Len(LastStep.GRPC.ProtoFiles) > 0
    /\ ~last.got.loadFails
    /\ last.err = NoErr /\ last.got.source = "composite"


\* ---- dispatch
\* the errors an executor returns before it has sent anything
EarlyErrors(kind) ==
    CASE kind = "sql" -> {"requires database_url", "open database", "ping database"}
      [] kind = "mongo" -> {"connect mongo", "ping mongo"}
      [] kind = "grpc" -> {"dial grpc", "prepare descriptor source", "build grpc request parser"}
      [] OTHER -> {}

\* the executor the claim assigns to the last step
Claimed ==
    IF TrimSpace(render(LastStep.SQL, last.before)) # "" THEN "sql"
    ELSE IF LastStep.Mongo.present THEN "mongo"
    ELSE IF LastStep.GRPC.present THEN "grpc"
    ELSE IF LastStep.Method # "" /\ LastStep.URL # "" THEN "http"
    ELSE "none"

\* C26: the operation a step sent is of the executor that comes first in the
\* order SQL (text not empty once rendered and trimmed), document block,
\* RPC block, HTTP (method and url both set); a step that sent nothing
\* stopped in that same executor; and a step that fits none fails with the
\* configuration error, sends nothing, saves nothing and exports nothing.
C26_DispatchOrder ==
    (last.step > 0 /\ LastStep \in MixedSteps) =>
       /\ last.op # NoOp => last.op.kind = Claimed
       /\ (last.op = NoOp /\ Claimed # "none") => last.err \in EarlyErrors(Claimed)
       /\ Claimed = "none" =>
             /\ last.err = "requires sql, grpc, or method/url fields"
             /\ last.op = NoOp
             /\ last.after = last.before
             /\ last.exported = 0
             /\ status[last.step] = "failed"

\* every block is populated and the SQL text renders to nothing: the
\* document store got the operation
C26_Witness ==
    /\ last.step > 0 /\ LastStep \in MixedSteps
    /\ LastStep.SQL # "" /\ TrimSpace(render(LastStep.SQL, last.before)) = ""
    /\ LastStep.Mongo.present /\ LastStep.GRPC.present
    /\ LastStep.Method # "" /\ LastStep.URL # ""
    /\ last.op.kind = "mongo"


\* ---- templates
\* the value of a variable in the store the last step saw, empty when absent
Var(name) == IF name \in DOMAIN last.before THEN last.before[name] ELSE ""

\* what the claim makes of each template: a reference to an absent variable
\* is the empty string, a template that fails is its own text, and the
\* result of one that succeeds is trimmed
Rendered(tmpl) ==
    CASE tmpl = "" -> ""
      [] tmpl = "  plain  " -> "plain"
      [] tmpl = " Hello {{toUpper .name}} {{.count}} " ->
            TrimSpace(" Hello " \o ToUpper(Var("name")) \o " " \o Var("count") \o " ")
      [] tmpl = "{{.missing}}" -> ""
      [] tmpl = "a{{ .missing }}b" -> "ab"
      [] tmpl = " {{toLower .name}}-{{ trimSpace .padded }} " ->
            TrimSpace(" " \o ToLower(Var("name")) \o "-" \o TrimSpace(Var("padded")) \o " ")
      [] OTHER -> tmpl

\* C27: the body an HTTP step sent is the rendering the claim describes of
\* the step's body template: absent variables as the empty string, the
\* original text for a template that fails to parse or to execute, the
\* trimmed output otherwise; and no step failed because of its template.
C27_RenderNeverFails ==
    (last.step > 0 /\ LastStep \in TemplateSteps /\ last.got.kind # "int") =>
       /\ last.op # NoOp
       /\ last.op.text = LastStep.Method \o " " \o Rendered(LastStep.Body)
       /\ last.got.kind = "resp" => last.err = NoErr

\* a template whose helper returns an error went out as written, spaces
\* included
C27_Witness ==
    /\ last.step > 0 /\ LastStep \in TemplateSteps /\ last.got.kind = "resp"
    /\ LastStep.Body = " x{{randString 0}} "
    /\ last.op.text = "POST  x{{randString 0}} "
    /\ last.err = NoErr

\* C28: randomInt(min, max) returned min when min >= max, and otherwise a
\* value from min to max, both included.
C28_RandomIntRange ==
    (last.step > 0 /\ last.got.kind = "int") =>
       /\ last.err = NoErr
       /\ last.got.min >= last.got.max => last.got.r = last.got.min
       /\ last.got.min < last.got.max =>
             last.got.min <= last.got.r /\ last.got.r <= last.got.max

\* min above max: min came back
C28_Witness ==
    /\ last.step > 0 /\ last.got.kind = "int"
    /\ last.got.min > last.got.max
    /\ last.got.r = last.got.min

\* C29: an export sink on which no record was recorded has written nothing
\* when it is closed, and its file does not exist; a sink with records has
\* written its file once, and the file holds the records.
C29_NothingWrittenWithoutRecords ==
    pc = "closed" =>
       IF exporter.records = <<>>
       THEN ~disk.file.exists /\ disk.file.writes = 0
       ELSE disk.file.exists /\ disk.file.writes = 1 /\ disk.file.data = exporter.records

\* C30: a step of any protocol that completed successfully with export set
\* and a non-empty save appended exactly one record, holding its name and
\* its save names with their current values; a failed step, a step without
\* export and a skipped step appended none; at close the file holds the
\* records in the order the steps ran.
C30_OneRecordPerExportingStep ==
    /\ last.step > 0 =>
          /\ (last.err = NoErr /\ LastStep.Export /\ DOMAIN LastStep.Save # {}) =>
                /\ last.exported = 1
                /\ exporter.records[Len(exporter.records)] =
                      [step |-> LastStep.Name,
                       vars |-> [k \in DOMAIN LastStep.Save |-> Lookup(last.after, k)]]
          /\ (last.err # NoErr \/ ~LastStep.Export) => last.exported = 0
    /\ pc \in {"loop", "returned", "closed"} =>
          \A i \in 1..NSteps : flow.Steps[i].Skip => i \notin exportedBy
    /\ pc = "closed" => disk.file.data = exporter.records

\* C31: flows run in one invocation have independent stores.  Whenever the
\* runner goes on to the next flow file, that flow is the one loaded and its
\* store is its own declared vars overlaid by the overrides, with nothing of
\* the flow before; no step changes the caller's overrides, and the loaded
\* flow and its steps stay as loaded while the flow runs.
C31_IndependentStores ==
    [][/\ overrides' = overrides
       /\ targets' # targets => flow' = Head(targets) /\ vars' = ExpectedBase'
       /\ targets' = targets => flow' = flow]_vars_

\* the second flow starts without the variable the first flow saved and
\* exported
C31_Witness ==
    /\ pc = "loop" /\ cur = 1 /\ last.step = 0
    /\ flow.Vars = LaterVars
    /\ exporter.records # <<>>
    /\ \E k \in DOMAIN exporter.records[1].vars :
          k \notin DOMAIN vars /\ exporter.records[1].vars[k] # ""
    /\ vars = ExpectedBase

\* the connections of the latest executor call
LastConnections == Connections(ScriptOf(dispatchKind(LastStep, last.before), LastStep), last.err)

PairKey(pair) == TrimSpace(Split(pair, "=")[1])
PairValue(pair) == SubSeq(pair, Len(Split(pair, "=")[1]) + 2, Len(pair))
BadPair(pair) == pair # "" /\ (Len(Split(pair, "=")) = 1 \/ PairKey(pair) = "")

\* C33: parseVarOverrides failed exactly when a pair that is not empty had no
\* "=" or a blank key, and then returned no overrides; otherwise the
\* overrides hold the trimmed key of every pair that is not empty, each with
\* the text after the first "=" of the last pair naming it, spaces and
\* further "=" included.
C33_ParseVarOverrides ==
    (last.step > 0 /\ last.got.kind = "overrides") =>
       LET pairs == last.got.pairs
           given == {i \in 1..Len(pairs) : pairs[i] # ""}
       IN  IF \E i \in 1..Len(pairs) : BadPair(pairs[i])
           THEN last.err # NoErr /\ last.got.out = EmptyMap
           ELSE /\ last.err = NoErr
                /\ DOMAIN last.got.out = {PairKey(pairs[i]) : i \in given}
                /\ \A i \in given :
                      (\A j \in given : j > i => PairKey(pairs[j]) # PairKey(pairs[i]))
                         => last.got.out[PairKey(pairs[i])] = PairValue(pairs[i])

\* the same key given twice, the second time behind a space: the later value
\* stands, with its own leading space
C33_Witness ==
    /\ last.step > 0 /\ last.got.kind = "overrides"
    /\ last.got.pairs = <<"foo=a=b", " foo= 2">>
    /\ last.err = NoErr
    /\ last.got.out = [k \in {"foo"} |-> " 2"]

\* C34: buildGRPCHeaders returned, for every metadata entry whose key is not
\* blank after trimming, exactly one header "trimmedKey: value" with that
\* entry's value rendered against the variables, nothing for the entries
\* with a blank key, and the headers in ascending order of their keys.
C34_HeaderPerEntry ==
    (last.step > 0 /\ last.got.kind = "headers") =>
       LET values == last.got.values
           out == last.got.out
           kept == {k \in DOMAIN values : TrimSpace(k) # ""}
           header(k) == TrimSpace(k) \o ": " \o render(values[k], last.before)
       IN  /\ Len(out) = Cardinality(kept)
           /\ \A k \in kept : Cardinality({i \in 1..Len(out) : out[i] = header(k)}) = 1
           /\ \A i \in 1..Len(out) : \E k \in kept : out[i] = header(k)
           /\ \A i \in 1..(Len(out) - 1) : ~StringLess(out[i + 1], out[i])

\* C35: the done channel of a wait is closed at most once, however the
\* timer's expiry and an interrupt interleave: the process never reaches the
\* close of a channel that is closed already.
C35_DoneClosedOnce == pc # "panic"

\* C36: a step whose wait is a valid duration, once in the wait loop,
\* eventually leaves it and proceeds to classification and dispatch, under
\* fair scheduling of the timer goroutine and the select, however ticks and
\* interrupts interleave.
C36_WaitEventuallyLeft == (pc = "wait") ~> (pc = "dispatch")

\* C37: a step that is not skipped and whose wait does not render to a valid
\* duration, the empty text of a missing variable included, failed with the
\* wait-duration error before anything else: no operation was sent, no
\* expectation evaluated, no variable saved and no record exported; and the
\* flow returned that error.
C37_InvalidWaitFailsFirst ==
    (/\ last.step > 0
     /\ LastStep.Wait # ""
     /\ ~ParseDuration(render(LastStep.Wait, last.before)).ok) =>
       /\ last.err = "parse wait duration"
       /\ last.op = NoOp /\ last.step \notin issued
       /\ ~last.checked
       /\ last.after = last.before /\ vars = last.before
       /\ last.exported = 0
       /\ pc = "returned" /\ result = "parse wait duration"
       /\ status[last.step] = "failed"
       /\ ~done[last.step] /\ timer[last.step] = "none"

\* the wait names a variable the store does not hold
C37_Witness ==
    /\ last.step > 0
    /\ LastStep.Wait = "{{.delay}}" /\ "delay" \notin DOMAIN last.before
    /\ render(LastStep.Wait, last.before) = ""
    /\ last.err = "parse wait duration"
    /\ pc = "returned" /\ result = "parse wait duration"

\* C38: a step that returned an error left the store exactly as it was when
\* the step started, whatever its protocol and whatever the cause.
C38_FailedStepSavesNothing ==
    (last.step > 0 /\ last.err # NoErr) => last.after = last.before /\ vars = last.before

\* C39: the protocol label classifyStep computes for a step names the
\* executor the engine dispatched the step to ("step" standing for none),
\* also when the SQL text renders to nothing and when several protocol
\* blocks are populated.
C39_LabelNamesExecutor ==
    last.step > 0 =>
       classifyStep(LastStep) =
          (IF dispatchKind(LastStep, last.before) = "none" THEN "step"
           ELSE dispatchKind(LastStep, last.before))

\* C40: parseGRPCCode returned either a parse error or one of the seventeen
\* canonical status codes 0 to 16; a number outside that range, or a
\* negative one, was not accepted as an expected code.
C40_CodeIsCanonical ==
    (last.step > 0 /\ last.got.kind = "code" /\ last.got.ok) =>
       \E n \in 0..(Len(grpcCodeNames) - 1) : IsCode(last.got.code, n)

====
